---- MODULE Spec2Model ----
(***************************************************************************)
(* devtodo: synchronisation of remote issues / pull requests into local    *)
(* calendar task documents.                                                *)
(*                                                                         *)
(* The module holds ten state machines over one set of variables:          *)
(*   Spec        the reconciliation of fetched remote items against the    *)
(*               existing-items mapping (fetch_items, TodoItem setters)    *)
(*   SpecSend    the retry loop around one GraphQL send                    *)
(*               (retry_with_backoff)                                      *)
(*   SpecPage    the GitHub pagination loops (query_user)                  *)
(*   SpecCodec   the calendar document codec (vtodo / from_component)      *)
(*   SpecFile    an existing document: from_path, the setters, write       *)
(*   SpecBackend one backend instance behind ItemSource: the client cell,  *)
(*               fetch_items, the conversion of remote records,            *)
(*               and account::connect                                      *)
(*   SpecMain    try_main's loop over the targets and its write phase      *)
(*   SpecLife    a new item's document: from_item, then from_path, the     *)
(*               setters and write                                         *)
(*   SpecDir     read_directory's loop over the entries of a directory     *)
(*   SpecRate    check_rate_limits / RateLimitInfo::inspect                *)
(* Each specification keeps the variables of the others at their idle      *)
(* values.                                                                 *)
(*                                                                         *)
(* Time: chrono timestamps are integers counted in ticks, TicksPerSec      *)
(* ticks to the second; Utc::now() returns a value larger than every       *)
(* earlier reading.  Uid: Uuid::new_v4() is modelled as a counter, i.e.    *)
(* the generator never repeats a value.                                    *)
(***************************************************************************)
EXTENDS Integers, Sequences, FiniteSets, TLC

VARIABLES
    \* ---- reconciliation (main.rs try_main, fetch_items) ----
    existing_items,   \* url_map: url -> TodoItem (BTreeMap<String, &mut TodoItem>)
    results,          \* remote items of the running fetch not yet reconciled
    new_items,        \* items the running fetch has created so far
    all_new_items,    \* try_main's all_new_items
    pc,               \* "idle" | "reconcile" | "aborted"
    now,              \* the last clock reading
    next_uid,         \* the uid generator
    fetches,          \* profiles fetched so far
    budget,           \* remote items the servers may still return
    \* ---- one retried send (client.rs retry_with_backoff) ----
    send_pc,          \* "off" | "loop" | "done" | "panicked"
    client_token,     \* the token the client was made with (Github.token)
    attempts,         \* calls of go() made so far
    timeout,          \* the next sleep, in seconds
    sleeps,           \* the sleeps taken so far, in order
    outcomes,         \* what each go() returned, in order
    send_result,      \* what retry_with_backoff returned
    \* ---- the pagination loops (github.rs query_user) ----
    page_pc,          \* "off" | "issues" | "prs" | "done" | "error" | "panic"
    cursor,           \* input.cursor: "none" or the cursor to send next
    requests,         \* the page requests sent so far: [query, cursor]
    items,            \* query_user's items
    last_rsp,         \* what the last send returned
    page_error,       \* the ItemError query_user returned
    \* ---- the document codec (todo.rs TodoFile, TodoItem) ----
    codec_pc,         \* "off" | "item" | "written" | "write_failed" | "read" |
                      \* "read_failed" | "parse_failed" | "saved" | "save_failed" | "kept"
                      \*   | "kept" | "saved" | "save_failed"
    todo_item,        \* the TodoItem handed to TodoFile::from_item
    file,             \* the document stored at the item's path
    todo_file,        \* what TodoFile::from_path returned: the TodoFile in memory
    writes,           \* the fs::write calls made on the document's path
    \* ---- one backend instance (github.rs GithubQuery, gitlab.rs GitlabQuery) ----
    backend_pc,       \* "off" | "account" | "config" | "live" | "panicked" |
                      \* "UnsupportedService" | "UnknownService"
    service,          \* "none" | the account's service identifier
    client,           \* the client cell: "none" | "uninit" | "ready" | "failed"
    init_error_cell,  \* GithubQuery::init_error_cell is set
    constructions,    \* runs of the client constructor
    connect_log,      \* "failed to connect to ... instance" log entries
    calls,            \* fetch_items calls made on the instance
    returns,          \* what each fetch_items call returned, in order
    remote,           \* the remote record the last successful query returned
    converted,        \* the GithubItem / GitlabItem made of it
    \* ---- the run over the targets (main.rs try_main) ----
    main_pc,          \* "off" | "start" | "setup" | "accounts" | "run" | "exited" |
                      \* "returned" | "panicked"
    invocation,       \* the command line and what the run finds on the machine
    accounts_left,    \* config.accounts not yet connected (service identifiers)
    targets_left,     \* targets_to_use not yet started
    profiles_left,    \* profiles of the current target not yet fetched
    todo_files,       \* the current target's todo_files not yet written: [id, updated]
    new_queue,        \* the current target's all_new_items not yet written (ids)
    errors,           \* try_main's errors: [target, what, id]
    attempted,        \* the write_item calls made so far: [target, what, id, ok]
    run_result,       \* what try_main returned
    \* ---- reading a target's directory (main.rs read_directory) ----
    dir_pc,           \* "off" | "reading" | "returned"
    dir_entries,      \* the directory entries not yet visited
    dir_files,        \* read_directory's todo_files so far
    dir_result,       \* what read_directory returned
    \* ---- rate limit inspection (github.rs check_rate_limits) ----
    rate_pc,          \* "off" | "response" | "checked"
    rate_limit,       \* the response's rate_limit: Option<RateLimitInfo>
    rate_log          \* the levels of the log entries inspect made for it

syncVars == <<existing_items, results, new_items, all_new_items, pc,
              next_uid, fetches, budget>>

sendVars == <<send_pc, client_token, attempts, timeout, sleeps, outcomes, send_result>>

pageVars == <<page_pc, cursor, requests, items, last_rsp, page_error>>

codecVars == <<codec_pc, todo_item, file, todo_file, writes>>

backendVars == <<backend_pc, service, client, init_error_cell, constructions,
                 connect_log, calls, returns, remote, converted>>

setupVars == <<invocation, accounts_left>>

mainVars == <<main_pc, setupVars, targets_left, profiles_left, todo_files, new_queue,
              errors, attempted, run_result>>

dirVars == <<dir_pc, dir_entries, dir_files, dir_result>>

rateVars == <<rate_pc, rate_limit, rate_log>>

auxVars == <<dirVars, rateVars>>

vars == <<now, syncVars, sendVars, pageVars, codecVars, backendVars, mainVars,
          auxVars>>

SyncIdle ==
    /\ existing_items = <<>> /\ results = <<>> /\ new_items = <<>>
    /\ all_new_items = <<>> /\ pc = "off" /\ next_uid = 0
    /\ fetches = 0 /\ budget = 0

SendIdle ==
    /\ send_pc = "off" /\ attempts = 0 /\ timeout = 0 /\ sleeps = <<>>
    /\ client_token = <<"t">>
    /\ outcomes = <<>> /\ send_result = [tag |-> "none", status |-> 0]

NoResponseYet ==
    [tag |-> "none", has_next_page |-> FALSE, end_cursor |-> "none", nodes |-> <<>>]

NoItemError == [kind |-> "none", service |-> "none", cause |-> "none"]

PageIdle ==
    /\ page_pc = "off" /\ cursor = "none" /\ requests = <<>> /\ items = <<>>
    /\ last_rsp = NoResponseYet /\ page_error = NoItemError

Absent == [tag |-> "none"]

CodecIdle ==
    /\ codec_pc = "off" /\ todo_item = Absent /\ file = Absent /\ todo_file = Absent
    /\ writes = 0

NoRemote == [what |-> "none"]

BackendIdle ==
    /\ backend_pc = "off" /\ service = "none" /\ client = "none"
    /\ init_error_cell = FALSE /\ constructions = 0 /\ connect_log = 0
    /\ calls = 0 /\ returns = <<>> /\ remote = NoRemote /\ converted = NoRemote

NoInvocation == [usage |-> "none"]

MainIdle ==
    /\ main_pc = "off" /\ targets_left = 0 /\ profiles_left = 0
    /\ invocation = NoInvocation /\ accounts_left = <<>>
    /\ todo_files = <<>> /\ new_queue = <<>> /\ errors = <<>>
    /\ attempted = <<>> /\ run_result = "none"

DirIdle ==
    /\ dir_pc = "off" /\ dir_entries = <<>> /\ dir_files = <<>>
    /\ dir_result = "none"

NoRateLimit == [some |-> FALSE]

RateIdle == rate_pc = "off" /\ rate_limit = NoRateLimit /\ rate_log = <<>>

AuxIdle == DirIdle /\ RateIdle

\* ------------------------------------------------------------------ bounds
MaxFetches == 2
MaxRemote == 2
MaxRequests == 3

\* ------------------------------------------------------------ domain model
TicksPerSec == 2

CR == "\r"
LF == "\n"

TodoStatus == {"NeedsAction", "Completed", "InProcess", "Cancelled"}

ALL_TODO_KINDS == <<"Issue", "AssignedIssue", "PullRequest", "AssignedPullRequest", "Todo">>

NoDue == [tag |-> "none", v |-> 0]
DueDate(d) == [tag |-> "date", v |-> d]
DueDateTime(t) == [tag |-> "datetime", v |-> t]

\* Values the remote side and the stored documents range over. A text (url,
\* summary, description) is a sequence of characters; "a", "A", "u1" stand for
\* runs of characters that no conversion of the program touches, as "uid-1"
\* does for the hyphenated uuid of Uid::default.
Urls == {<<"u1">>, <<"u2">>}
Summaries == {<<"A">>, <<"B">>}
Descriptions == {<<"a">>, <<"a", CR, LF>>}
RemoteStatuses == {"NeedsAction", "Completed"}
RemoteKinds == {"Issue", "PullRequest"}
RemoteDues == {NoDue, DueDateTime(2)}

\* A url names an issue or a pull request: the query that returns it fixes the kind.
KindOfUrl(u) == IF u = <<"u1">> THEN "Issue" ELSE "PullRequest"

\* GithubItem / GitlabItem
RemoteItems ==
    {r \in [due : RemoteDues, summary : Summaries, description : Descriptions,
            kind : RemoteKinds, status : RemoteStatuses, url : Urls] :
        r.kind = KindOfUrl(r.url)}

RECURSIVE SeqsUpTo(_, _)
SeqsUpTo(S, n) ==
    IF n = 0 THEN {<<>>}
    ELSE LET shorter == SeqsUpTo(S, n - 1)
         IN shorter \cup {Append(s, x) : s \in {t \in shorter : Len(t) = n - 1}, x \in S}

\* String::replace('\r', "")
StripCR(s) == SelectSeq(s, LAMBDA c : c # CR)

\* The backslash.
BS == "\\"

\* str::replace for a pattern of one character: every c becomes the text to.
replace1(s, c, to) ==
    LET RECURSIVE go(_)
        go(i) == IF i > Len(s) THEN <<>>
                 ELSE (IF s[i] = c THEN to ELSE <<s[i]>>) \o go(i + 1)
    IN go(1)

\* str::replace for a pattern of two characters: the occurrences of c1 c2 are
\* taken from the left, without overlap, and each becomes the text to.
replace2(s, c1, c2, to) ==
    LET RECURSIVE go(_)
        go(i) == IF i > Len(s) THEN <<>>
                 ELSE IF i < Len(s) /\ s[i] = c1 /\ s[i + 1] = c2
                 THEN to \o go(i + 2)
                 ELSE <<s[i]>> \o go(i + 1)
    IN go(1)

\* vobject::escape_chars, the replacements in its order: backslash-n gains a
\* backslash, CR LF becomes LF, LF becomes backslash-n, comma and semicolon
\* gain a backslash.
escape_chars(s) ==
    LET s1 == replace2(s, BS, "n", <<BS, BS, "n">>)
        s2 == replace2(s1, CR, LF, <<LF>>)
        s3 == replace1(s2, LF, <<BS, "n">>)
        s4 == replace1(s3, ",", <<BS, ",">>)
    IN replace1(s4, ";", <<BS, ";">>)

\* vobject::unescape_chars, the replacements in its order.
unescape_chars(s) ==
    LET s1 == replace2(s, BS, "n", <<LF>>)
        s2 == replace2(s1, BS, "N", <<LF>>)
        s3 == replace2(s2, BS, ",", <<",">>)
        s4 == replace2(s3, BS, ";", <<";">>)
    IN replace2(s4, BS, BS, <<BS>>)

\* Property::new(name, value).raw_value
Property_new(value) == escape_chars(value)

\* Property::value_as_string
value_as_string(raw_value) == unescape_chars(raw_value)

\* ------------------------------------------------------- TodoItem setters
\* A setter acts on a context [it |-> item, clk |-> last clock reading].

\* set_status that also restamps created.
set_status_restamps_created(c, new_status) ==
    IF c.it.status # new_status
    THEN [it |-> [c.it EXCEPT !.status = new_status, !.last_modified = c.clk + 1,
                              !.created = c.clk + 1, !.updated = TRUE],
          clk |-> c.clk + 1]
    ELSE c

\* set_description that leaves last_modified alone.
set_description_no_stamp(c, new_description) ==
    LET stripped == StripCR(new_description)
    IN IF c.it.description # stripped
       THEN [it |-> [c.it EXCEPT !.description = stripped, !.updated = TRUE],
             clk |-> c.clk]
       ELSE c

set_due(c, new_due) ==
    IF c.it.due = NoDue \/ c.it.due # new_due
    THEN [it |-> [c.it EXCEPT !.due = new_due, !.last_modified = c.clk + 1,
                              !.updated = TRUE],
          clk |-> c.clk + 1]
    ELSE c

\* set_status without the comparison: every call marks the item.
set_status_always(c, new_status) ==
    [it |-> [c.it EXCEPT !.status = new_status, !.last_modified = c.clk + 1,
                         !.updated = TRUE],
     clk |-> c.clk + 1]

set_status(c, new_status) ==
    IF c.it.status # new_status
    THEN [it |-> [c.it EXCEPT !.status = new_status, !.last_modified = c.clk + 1,
                              !.updated = TRUE],
          clk |-> c.clk + 1]
    ELSE c

\* set_summary that forgets to raise the dirty flag.
set_summary_not_dirty(c, new_summary) ==
    IF c.it.summary # new_summary
    THEN [it |-> [c.it EXCEPT !.summary = new_summary, !.last_modified = c.clk + 1],
          clk |-> c.clk + 1]
    ELSE c

set_summary(c, new_summary) ==
    IF c.it.summary # new_summary
    THEN [it |-> [c.it EXCEPT !.summary = new_summary, !.last_modified = c.clk + 1,
                              !.updated = TRUE],
          clk |-> c.clk + 1]
    ELSE c

set_description(c, new_description) ==
    LET stripped == StripCR(new_description)
    IN IF c.it.description # stripped
       THEN [it |-> [c.it EXCEPT !.description = stripped, !.last_modified = c.clk + 1,
                                 !.updated = TRUE],
             clk |-> c.clk + 1]
       ELSE c

\* build without the description setter: the field keeps its default.
build_default_description(r, uid, clk) ==
    [uid |-> uid, kind |-> r.kind, created |-> clk + 1, due |-> r.due,
     status |-> r.status, url |-> r.url, summary |-> r.summary,
     description |-> <<>>, last_modified |-> clk + 2, updated |-> FALSE]

\* TodoItemBuilder::build: uid, created and last_modified take their defaults
build(r, uid, clk) ==
    [uid |-> uid, kind |-> r.kind, created |-> clk + 1, due |-> r.due,
     status |-> r.status, url |-> r.url, summary |-> r.summary,
     description |-> r.description, last_modified |-> clk + 2, updated |-> FALSE]

\* The match arm assigning the remote due whatever it is: an absent due clears.
update_existing_assigns_absent_due(item, r, clk) ==
    LET c0 == [it |-> item, clk |-> clk]
        c1 == IF item.due # r.due
              THEN [it |-> [item EXCEPT !.due = r.due, !.last_modified = clk + 1,
                                        !.updated = TRUE],
                    clk |-> clk + 1]
              ELSE c0
        c2 == set_status(c1, r.status)
        c3 == set_summary(c2, r.summary)
    IN set_description(c3, r.description)

\* The match arm also taking the remote kind.
update_existing_takes_kind(item, r, clk) ==
    LET c0 == [it |-> [item EXCEPT !.kind = r.kind], clk |-> clk]
        c1 == IF r.due # NoDue THEN set_due(c0, r.due) ELSE c0
        c2 == set_status(c1, r.status)
        c3 == set_summary(c2, r.summary)
    IN set_description(c3, r.description)

\* The match arm of fetch_items' closure: the compare-and-set updates.
update_existing(item, r, clk) ==
    LET c0 == [it |-> item, clk |-> clk]
        c1 == IF r.due # NoDue THEN set_due(c0, r.due) ELSE c0
        c2 == set_status(c1, r.status)
        c3 == set_summary(c2, r.summary)
    IN set_description(c3, r.description)

\* Uid::default
fresh_uid(n) == n + 1

\* ---------------------------------------------------------- fetch_items
\* The query (query_user / query_projects) returned Ok(list).
QueryOk ==
    /\ pc = "idle"
    /\ fetches < MaxFetches
    /\ \E rs \in SeqsUpTo(RemoteItems, budget) :
          /\ results' = rs
          /\ budget' = budget - Len(rs)
    /\ new_items' = <<>>
    /\ pc' = "reconcile"
    /\ UNCHANGED <<existing_items, all_new_items, now, next_uid, fetches>>
    /\ UNCHANGED <<sendVars, pageVars, codecVars, backendVars, mainVars, auxVars>>

\* A failing query whose error surfaces after the closure ran on a matched item.
QueryErr_after_partial ==
    /\ pc = "idle"
    /\ fetches < MaxFetches
    /\ \E r \in RemoteItems :
          /\ r.url \in DOMAIN existing_items
          /\ LET c == update_existing(existing_items[r.url], r, now)
             IN /\ existing_items' = [existing_items EXCEPT ![r.url] = c.it]
                /\ now' = c.clk
    /\ pc' = "aborted"
    /\ UNCHANGED <<results, new_items, all_new_items, next_uid, fetches, budget>>
    /\ UNCHANGED <<sendVars, pageVars, codecVars, backendVars, mainVars, auxVars>>

\* The query failed: fetch_items returns the error and try_main gives up.
QueryErr ==
    /\ pc = "idle"
    /\ fetches < MaxFetches
    /\ pc' = "aborted"
    /\ UNCHANGED <<existing_items, results, new_items, all_new_items, now,
                   next_uid, fetches, budget>>
    /\ UNCHANGED <<sendVars, pageVars, codecVars, backendVars, mainVars, auxVars>>

\* The closure with a retain() of the matched entry: unmatched entries are dropped.
reconcile_drops_unmatched(lookup, result, clk, uidgen) ==
    IF result.url \in DOMAIN lookup
    THEN LET c == update_existing(lookup[result.url], result, clk)
         IN [lookup |-> [u \in {result.url} |-> c.it], clk |-> c.clk,
             uidgen |-> uidgen, yield |-> <<>>]
    ELSE [lookup |-> lookup, clk |-> clk + 2, uidgen |-> fresh_uid(uidgen),
          yield |-> <<build(result, fresh_uid(uidgen), clk)>>]

\* The filter_map closure of fetch_items on one remote item: the lookup, the
\* clock and the uid generator after it, and what it yields (None or Some(item)).
reconcile(lookup, result, clk, uidgen) ==
    IF result.url \in DOMAIN lookup
    THEN LET c == update_existing(lookup[result.url], result, clk)
         IN [lookup |-> [lookup EXCEPT ![result.url] = c.it], clk |-> c.clk,
             uidgen |-> uidgen, yield |-> <<>>]
    ELSE [lookup |-> lookup, clk |-> clk + 2, uidgen |-> fresh_uid(uidgen),
          yield |-> <<build(result, fresh_uid(uidgen), clk)>>]

\* One call of the filter_map closure, on the next remote item.
Reconcile ==
    /\ pc = "reconcile"
    /\ results # <<>>
    /\ LET r == reconcile(existing_items, Head(results), now, next_uid)
       IN /\ existing_items' = r.lookup
          /\ now' = r.clk
          /\ next_uid' = r.uidgen
          /\ new_items' = new_items \o r.yield
    /\ results' = Tail(results)
    /\ UNCHANGED <<all_new_items, pc, fetches, budget>>
    /\ UNCHANGED <<sendVars, pageVars, codecVars, backendVars, mainVars, auxVars>>

\* collect(): fetch_items returns Ok(new items); try_main extends all_new_items.
FetchReturn ==
    /\ pc = "reconcile"
    /\ results = <<>>
    /\ all_new_items' = all_new_items \o new_items
    /\ new_items' = <<>>
    /\ pc' = "idle"
    /\ fetches' = fetches + 1
    /\ UNCHANGED <<existing_items, results, now, next_uid, budget>>
    /\ UNCHANGED <<sendVars, pageVars, codecVars, backendVars, mainVars, auxVars>>

\* The documents read_directory decoded: descriptions hold no CR, timestamps
\* are whole seconds in the past, uids are distinct.
StoredItem(u, id, kind, due, upd) ==
    [uid |-> id, kind |-> kind, created |-> 0, due |-> due,
     status |-> "NeedsAction", url |-> u, summary |-> <<"A">>,
     description |-> <<"a">>, last_modified |-> IF upd THEN 4 ELSE 2, updated |-> upd]

StoredVariants(u) ==
    IF u = <<"u1">>
    THEN {StoredItem(u, 1, "Issue", NoDue, FALSE),
          StoredItem(u, 1, "Issue", DueDateTime(2), FALSE),
          StoredItem(u, 1, "Issue", DueDate(1), FALSE),
          StoredItem(u, 1, "Todo", NoDue, TRUE)}
    ELSE {StoredItem(u, 2, "PullRequest", NoDue, FALSE)}

InitSync ==
    /\ \E U \in SUBSET Urls :
         existing_items \in {f \in [U -> UNION {StoredVariants(u) : u \in Urls}] :
                                \A u \in U : f[u] \in StoredVariants(u)}
    /\ results = <<>>
    /\ new_items = <<>>
    /\ all_new_items = <<>>
    /\ pc = "idle"
    /\ now = 4
    /\ next_uid = 2
    /\ fetches = 0
    /\ budget = MaxRemote
    /\ SendIdle /\ PageIdle /\ CodecIdle /\ BackendIdle /\ MainIdle /\ AuxIdle

NextSync == QueryOk \/ QueryErr \/ Reconcile \/ FetchReturn

Spec == InitSync /\ [][NextSync]_vars

\* ------------------------------------------------------------------------
\* One retried send: Github::send = retry_with_backoff(send_impl)
\* ------------------------------------------------------------------------
BACKOFF_LIMIT == 5
BACKOFF_START == 1
BACKOFF_SCALE == 2

\* What the transport can answer to one POST: the request is sent or not; the
\* answer has a status, a body that decodes or not, an errors member (absent,
\* an empty list, a non-empty list) and a data member (present or not).
HttpStatuses == {200, 401, 500, 503}

Transport ==
    {[sent |-> FALSE, status |-> 0, json |-> FALSE, errors |-> "absent", data |-> FALSE]}
    \cup [sent : {TRUE}, status : HttpStatuses, json : BOOLEAN,
          errors : {"absent", "empty", "some"}, data : BOOLEAN]

\* reqwest::StatusCode::is_server_error / is_success
is_server_error(status) == status >= 500 /\ status <= 599
is_success(status) == status >= 200 /\ status <= 299

\* GithubResult values: Ok, or an error variant (GithubService keeps the status)
Result(tag) == [tag |-> tag, status |-> 0]
ServiceUnavailable(status) == [tag |-> "GithubService", status |-> status]

\* The tokens a client is made with, as sequences of characters: a plain one,
\* one that holds a tab, one that ends in a newline (a secret read from a YAML
\* block scalar), one that holds an escape character and one that holds DEL.
Tokens == {<<"t">>, <<"t", "TAB">>, <<"t", "LF">>, <<"ESC", "t">>, <<"t", "DEL">>}

\* The bytes below 32, by name, and byte 127.
ControlChars == {"NUL", "BEL", "TAB", "LF", "CR", "ESC"}
DelChar == "DEL"

\* HeaderValue::from_str rejects every byte below 32 except tab, and byte 127.
header_value_ok(chars) ==
    \A i \in 1..Len(chars) :
        chars[i] = "TAB" \/ chars[i] \notin ControlChars \cup {DelChar}

\* Github::auth_header: format!("bearer {}", token).parse().unwrap()
auth_header(tok) == IF header_value_ok(tok) THEN Result("Ok") ELSE Result("panic")

\* Github::send_impl of a client with the token on one answer of the
\* transport; the header is built before anything is sent.
send_impl(tok, rsp) ==
    IF auth_header(tok).tag = "panic" THEN Result("panic")
    ELSE IF ~rsp.sent THEN Result("SendRequest")
    ELSE IF is_server_error(rsp.status) THEN ServiceUnavailable(rsp.status)
    ELSE IF ~is_success(rsp.status) THEN Result("Github")
    ELSE IF ~rsp.json THEN Result("JsonResponse")
    ELSE IF rsp.errors # "absent" THEN Result("GraphQL")
    ELSE IF ~rsp.data THEN Result("NoResponse")
    ELSE Result("Ok")

\* should_backoff that retries on every error.
should_backoff_any(err) == TRUE

\* GithubError::should_backoff
should_backoff(err) == err.tag = "GithubService"

\* the timeout grows by addition instead of scaling.
next_timeout_additive(t) == t + BACKOFF_SCALE

\* the timeout is never scaled.
next_timeout_constant(t) == t

\* timeout *= BACKOFF_SCALE
next_timeout(t) == t * BACKOFF_SCALE

\* the loop's fall-through returns the last error it saw.
exhausted_last_error(seen) == seen[Len(seen)]

\* Err(GithubError::github_backoff()) after the loop
exhausted(seen) == Result("GithubBackoff")

\* One iteration of the for loop: go(), then the match.
Attempt ==
    /\ send_pc = "loop"
    /\ attempts < BACKOFF_LIMIT
    /\ \E rsp \in Transport :
         LET res == send_impl(client_token, rsp)
         IN IF res.tag = "panic"
            THEN /\ send_pc' = "panicked"
                 /\ UNCHANGED <<attempts, timeout, sleeps, outcomes, send_result>>
            ELSE
            /\ outcomes' = Append(outcomes, res)
            /\ attempts' = attempts + 1
            /\ IF res.tag = "Ok"
               THEN /\ send_pc' = "done" /\ send_result' = res
                    /\ UNCHANGED <<sleeps, timeout>>
               ELSE IF should_backoff(res)
               THEN /\ sleeps' = Append(sleeps, timeout)
                    /\ timeout' = next_timeout(timeout)
                    /\ UNCHANGED <<send_pc, send_result>>
               ELSE /\ send_pc' = "done" /\ send_result' = res
                    /\ UNCHANGED <<sleeps, timeout>>
    /\ UNCHANGED client_token
    /\ UNCHANGED <<now, syncVars, pageVars, codecVars, backendVars, mainVars, auxVars>>

\* The for loop ran BACKOFF_LIMIT times without returning.
Exhausted ==
    /\ send_pc = "loop"
    /\ attempts = BACKOFF_LIMIT
    /\ send_pc' = "done"
    /\ send_result' = exhausted(outcomes)
    /\ UNCHANGED <<client_token, attempts, timeout, sleeps, outcomes>>
    /\ UNCHANGED <<now, syncVars, pageVars, codecVars, backendVars, mainVars, auxVars>>

InitSend ==
    /\ send_pc = "loop" /\ attempts = 0 /\ timeout = BACKOFF_START
    /\ client_token \in Tokens
    /\ sleeps = <<>> /\ outcomes = <<>> /\ send_result = Result("none")
    /\ now = 0 /\ SyncIdle /\ PageIdle /\ CodecIdle /\ BackendIdle /\ MainIdle /\ AuxIdle

NextSend == Attempt \/ Exhausted

SpecSend == InitSend /\ [][NextSend]_vars

\* ------------------------------------------------------------------------
\* The pagination loops of GithubQuery::query_user
\* ------------------------------------------------------------------------
Cursors == {"c1", "c2"}

\* The nodes of one page: null entries are dropped by flatten().
PageNodes == {<<>>, <<"n1">>, <<"null", "n2">>}

\* What client.send returns for a page request: Ok(response data) with the
\* page's nodes (items: None is the empty list here) and its page_info, or Err.
PageResponses ==
    [tag : {"Ok"}, has_next_page : BOOLEAN, end_cursor : Cursors \cup {"none"},
     nodes : PageNodes]

SendErrors == {"SendRequest", "Github", "JsonResponse", "GraphQL", "NoResponse",
               "GithubBackoff"}

ErrResponse(e) == [tag |-> e, has_next_page |-> FALSE, end_cursor |-> "none", nodes |-> <<>>]

\* items.extend(nodes.into_iter().flatten().map(into))
flatten(query, nodes) ==
    LET kept == SelectSeq(nodes, LAMBDA n : n # "null")
    IN [i \in 1..Len(kept) |-> [query |-> query, node |-> kept[i]]]

\* the loop tail without the assert: a missing cursor is sent as no cursor.
after_page_no_assert(page_info) ==
    IF page_info.has_next_page THEN "continue" ELSE "break"

\* the loop tail that never asks for a following page.
after_page_always_breaks(page_info) == "break"

\* The tail of a loop iteration: continue with the end cursor, break, or fail
\* the assert!(page_info.end_cursor.is_some()).
after_page(page_info) ==
    IF page_info.has_next_page
    THEN IF page_info.end_cursor = "none" THEN "panic" ELSE "continue"
    ELSE "break"

\* map_err that reports an exhausted backoff as a service error.
query_error_backoff_as_service(err) ==
    IF err = "GithubBackoff"
    THEN [kind |-> "ServiceError", service |-> "github", cause |-> err]
    ELSE [kind |-> "QueryError", service |-> "github", cause |-> err]

\* The map_err closures of query_user: a failed send becomes QueryError.
query_error(err) == [kind |-> "QueryError", service |-> "github", cause |-> err]

\* The map_err closure of fetch_items: a failed client becomes ServiceError.
service_error == [kind |-> "ServiceError", service |-> "github", cause |-> "Construction"]

\* The head of GithubQuery::fetch_items with target SelfUser: the client cell
\* holds Ok (query_user starts) or Err (ServiceError is returned).
FetchStart ==
    /\ page_pc = "fetch"
    /\ \E constructed \in BOOLEAN :
          IF constructed
          THEN page_pc' = "issues" /\ UNCHANGED page_error
          ELSE page_pc' = "error" /\ page_error' = service_error
    /\ UNCHANGED <<cursor, requests, items, last_rsp>>
    /\ UNCHANGED <<now, syncVars, sendVars, codecVars, backendVars, mainVars, auxVars>>

\* One iteration of a pagination loop of query `query`; `next` is where a break leads.
PageIteration(query, next) ==
    /\ Len(requests) < MaxRequests
    /\ requests' = Append(requests, [query |-> query, cursor |-> cursor])
    /\ \/ \E e \in SendErrors :
            /\ last_rsp' = ErrResponse(e)
            /\ page_pc' = "error"
            /\ page_error' = query_error(e)
            /\ UNCHANGED <<cursor, items>>
       \/ \E rsp \in PageResponses :
            /\ last_rsp' = rsp
            /\ items' = items \o flatten(query, rsp.nodes)
            /\ LET how == after_page(rsp)
               IN /\ page_pc' = CASE how = "continue" -> page_pc
                                  [] how = "break" -> next
                                  [] OTHER -> "panic"
                  /\ cursor' = CASE how = "continue" -> rsp.end_cursor
                                 [] how = "break" -> "none"
                                 [] OTHER -> cursor
            /\ UNCHANGED page_error
    /\ UNCHANGED <<now, syncVars, sendVars, codecVars, backendVars, mainVars, auxVars>>

\* The loop over ViewerIssues
IssuesPage == page_pc = "issues" /\ PageIteration("ViewerIssues", "prs")

\* The loop over ViewerPullRequests
PullRequestsPage == page_pc = "prs" /\ PageIteration("ViewerPullRequests", "done")

InitPage ==
    /\ page_pc = "fetch" /\ cursor = "none" /\ requests = <<>> /\ items = <<>>
    /\ last_rsp = NoResponseYet /\ page_error = NoItemError
    /\ now = 0 /\ SyncIdle /\ SendIdle /\ CodecIdle /\ BackendIdle /\ MainIdle /\ AuxIdle

NextPage == FetchStart \/ IssuesPage \/ PullRequestsPage

SpecPage == InitPage /\ [][NextPage]_vars

\* ------------------------------------------------------------------------
\* The calendar document codec: TodoFile and TodoItem::vtodo / from_component
\* ------------------------------------------------------------------------
PRODID_PREFIX == "-//IDN benboeckel.net//devtodo/"
PRODID_SUFFIX == "CARGO_PKG_VERSION vobject//EN"

\* chrono format / parse_from_str with DATE_TIME_FMT ("%Y%m%dT%H%M%SZ") and
\* DATE_FMT ("%Y%m%d").  A formatted text is its pattern and the number it
\* spells: whole seconds (the sub-second part is not printed) or days.
format_date_time(t) == [fmt |-> "YmdTHMSZ", n |-> t \div TicksPerSec]
format_date(d) == [fmt |-> "Ymd", n |-> d]
parses_as_date_time(s) == s.fmt = "YmdTHMSZ"
parses_as_date(s) == s.fmt = "Ymd"
parse_date_time(s) == s.n * TicksPerSec
parse_date(s) == s.n

\* Display for Due that prints a date-time with the date pattern.
Due_display_date_only(due) ==
    IF due.tag = "date" THEN format_date(due.v)
    ELSE format_date(due.v \div TicksPerSec)

\* impl fmt::Display for Due
Due_display(due) ==
    IF due.tag = "date" THEN format_date(due.v) ELSE format_date_time(due.v)

\* Due::from_str: None is NoDue here, told apart by the caller through due_parses
due_parses(s) == parses_as_date_time(s) \/ parses_as_date(s)
Due_from_str(s) ==
    IF parses_as_date_time(s) THEN DueDateTime(parse_date_time(s))
    ELSE DueDate(parse_date(s))

\* impl AsRef<str> for TodoStatus
status_str(status) ==
    CASE status = "NeedsAction" -> "NEEDS-ACTION"
      [] status = "Completed" -> "COMPLETED"
      [] status = "InProcess" -> "IN-PROCESS"
      [] status = "Cancelled" -> "CANCELLED"

\* TodoKind::category
category(kind) ==
    CASE kind = "Issue" -> "issue"
      [] kind = "AssignedIssue" -> "assigned-issue"
      [] kind = "PullRequest" -> "pull-request"
      [] kind = "AssignedPullRequest" -> "assigned-pull-request"
      [] kind = "Todo" -> "todo"

KindCategories == {category(ALL_TODO_KINDS[i]) : i \in 1..Len(ALL_TODO_KINDS)}

\* A component's properties: a function from the names it carries to values.
\* Component::set replaces the property of that name.
set(props, name, value) ==
    [n \in DOMAIN props \cup {name} |-> IF n = name THEN value ELSE props[n]]

\* Component::get_only(name).is_some()
has(props, name) == name \in DOMAIN props

\* The CATEGORIES value is its comma-separated tokens.
contains(tokens, token) == \E i \in 1..Len(tokens) : tokens[i] = token

\* update_component that rewrites CATEGORIES to the kind token alone.
update_component_resets_categories(item, props) ==
    LET p1 == set(props, "SUMMARY", Property_new(item.summary))
        p2 == set(p1, "DESCRIPTION", Property_new(item.description))
        p3 == set(p2, "URL", Property_new(item.url))
        p4 == IF item.due # NoDue THEN set(p3, "DUE", Due_display(item.due)) ELSE p3
        p5 == set(p4, "LAST-MODIFIED", format_date_time(item.last_modified))
    IN set(p5, "CATEGORIES", <<category(item.kind)>>)

\* update_component that leaves LAST-MODIFIED alone.
update_component_keeps_last_modified(item, props) ==
    LET p1 == set(props, "SUMMARY", Property_new(item.summary))
        p2 == set(p1, "DESCRIPTION", Property_new(item.description))
        p3 == set(p2, "URL", Property_new(item.url))
        p4 == IF item.due # NoDue THEN set(p3, "DUE", Due_display(item.due)) ELSE p3
    IN set(p4, "CATEGORIES", <<category(item.kind)>>)

\* update_component that always filters the kind tokens and appends the kind.
update_component_always_appends(item, props) ==
    LET p1 == set(props, "SUMMARY", Property_new(item.summary))
        p2 == set(p1, "DESCRIPTION", Property_new(item.description))
        p3 == set(p2, "URL", Property_new(item.url))
        p4 == IF item.due # NoDue THEN set(p3, "DUE", Due_display(item.due)) ELSE p3
        p5 == set(p4, "LAST-MODIFIED", format_date_time(item.last_modified))
    IN IF has(p5, "CATEGORIES")
       THEN set(p5, "CATEGORIES",
                Append(SelectSeq(p5["CATEGORIES"], LAMBDA c : c \notin KindCategories),
                       category(item.kind)))
       ELSE set(p5, "CATEGORIES", <<category(item.kind)>>)

\* TodoItem::update_component
update_component(item, props) ==
    LET p1 == set(props, "SUMMARY", Property_new(item.summary))
        p2 == set(p1, "DESCRIPTION", Property_new(item.description))
        p3 == set(p2, "URL", Property_new(item.url))
        p4 == IF item.due # NoDue THEN set(p3, "DUE", Due_display(item.due)) ELSE p3
        p5 == set(p4, "LAST-MODIFIED", format_date_time(item.last_modified))
    IN IF has(p5, "CATEGORIES")
       THEN LET all_categories == p5["CATEGORIES"]
                kind_categories == SelectSeq(all_categories, LAMBDA c : c \in KindCategories)
            IN IF Len(kind_categories) = 1 /\ kind_categories[1] = category(item.kind)
               THEN p5
               ELSE set(p5, "CATEGORIES",
                        Append(SelectSeq(all_categories, LAMBDA c : c \notin KindCategories),
                               category(item.kind)))
       ELSE set(p5, "CATEGORIES", <<category(item.kind)>>)

\* vtodo that sets no CLASS.
vtodo_without_class(item, clk) ==
    LET p0 == [n \in {"DTSTAMP", "UID", "CREATED", "STATUS"} |->
                 CASE n = "DTSTAMP" -> format_date_time(clk)
                   [] n = "UID" -> Property_new(item.uid)
                   [] n = "CREATED" -> format_date_time(item.created)
                   [] n = "STATUS" -> status_str(item.status)]
    IN [name |-> "VTODO", props |-> update_component(item, p0)]

\* TodoItem::vtodo: the VTODO component of an item, stamped at clock reading clk
vtodo(item, clk) ==
    LET p0 == [n \in {"DTSTAMP", "UID", "CREATED", "CLASS", "STATUS"} |->
                 CASE n = "DTSTAMP" -> format_date_time(clk)
                   [] n = "UID" -> Property_new(item.uid)
                   [] n = "CREATED" -> format_date_time(item.created)
                   [] n = "CLASS" -> "CONFIDENTIAL"
                   [] n = "STATUS" -> status_str(item.status)]
    IN [name |-> "VTODO", props |-> update_component(item, p0)]

\* the kind whose category is found first, in the order of ALL_TODO_KINDS
find_kind(categories) ==
    LET hits == {i \in 1..Len(ALL_TODO_KINDS) : contains(categories, category(ALL_TODO_KINDS[i]))}
    IN IF hits = {} THEN "none"
       ELSE ALL_TODO_KINDS[CHOOSE i \in hits : \A j \in hits : i <= j]

StatusStrings == {status_str(st) : st \in TodoStatus}

\* TodoItem::from_component succeeds (returns Some)
decodable(props) ==
    /\ has(props, "UID")
    /\ has(props, "CATEGORIES") /\ find_kind(props["CATEGORIES"]) # "none"
    /\ has(props, "DTSTAMP") /\ parses_as_date_time(props["DTSTAMP"])
    /\ has(props, "DUE") => due_parses(props["DUE"])
    /\ has(props, "STATUS") /\ props["STATUS"] \in StatusStrings
    /\ has(props, "URL") /\ has(props, "SUMMARY") /\ has(props, "DESCRIPTION")
    /\ has(props, "LAST-MODIFIED") => parses_as_date_time(props["LAST-MODIFIED"])

\* from_component that marks every decoded item as updated.
from_component_always_updated(props, clk) ==
    [uid |-> value_as_string(props["UID"]),
     kind |-> find_kind(props["CATEGORIES"]),
     created |-> parse_date_time(props["DTSTAMP"]),
     due |-> IF has(props, "DUE") THEN Due_from_str(props["DUE"]) ELSE NoDue,
     status |-> CHOOSE st \in TodoStatus : status_str(st) = props["STATUS"],
     url |-> value_as_string(props["URL"]),
     summary |-> value_as_string(props["SUMMARY"]),
     description |-> value_as_string(props["DESCRIPTION"]),
     last_modified |-> IF has(props, "LAST-MODIFIED")
                       THEN parse_date_time(props["LAST-MODIFIED"]) ELSE clk,
     updated |-> TRUE]

\* TodoItem::from_component on a decodable component, at clock reading clk
from_component(props, clk) ==
    [uid |-> value_as_string(props["UID"]),
     kind |-> find_kind(props["CATEGORIES"]),
     created |-> parse_date_time(props["DTSTAMP"]),
     due |-> IF has(props, "DUE") THEN Due_from_str(props["DUE"]) ELSE NoDue,
     status |-> CHOOSE st \in TodoStatus : status_str(st) = props["STATUS"],
     url |-> value_as_string(props["URL"]),
     summary |-> value_as_string(props["SUMMARY"]),
     description |-> value_as_string(props["DESCRIPTION"]),
     last_modified |-> IF has(props, "LAST-MODIFIED")
                       THEN parse_date_time(props["LAST-MODIFIED"]) ELSE clk,
     updated |-> ~has(props, "LAST-MODIFIED")]

\* is_our_component without the PRODID prefix test.
is_our_component_any_prodid(component) ==
    /\ component.prodid.present
    /\ Len(component.subcomponents) = 1

\* TodoFile::is_our_component
is_our_component(component) ==
    /\ component.prodid.present
    /\ component.prodid.prefix = PRODID_PREFIX
    /\ Len(component.subcomponents) = 1

\* TodoFile::extract_component(..).is_some()
extractable(component) ==
    /\ is_our_component(component)
    /\ component.subcomponents[1].name = "VTODO"

\* The VCALENDAR wrapper TodoFile::from_item_impl builds around the VTODO
calendar_of(item, clk) ==
    [tag |-> "VCALENDAR", version |-> "2.0",
     prodid |-> [present |-> TRUE, prefix |-> PRODID_PREFIX, suffix |-> PRODID_SUFFIX],
     subcomponents |-> <<vtodo(item, clk)>>]

\* The file of no bytes that fs::write leaves when it created or truncated the
\* file and the write after it failed; vobject::parse_component rejects it.
Truncated == [tag |-> "empty"]

\* The file that fs::write leaves when write_all failed after it wrote some
\* of the bytes (a size limit, a quota or a full disk met on the way) and the
\* cut fell inside the document: a prefix that ends before the END:VCALENDAR
\* line is complete. vobject::parse_component rejects it.
Partial == [tag |-> "partial"]

\* The file that holds every byte of the document but the CR LF that ends its
\* last line: what a failed fs::write leaves when the cut fell there.
LessFinalEol(document) == [tag |-> "less_eol", document |-> document]

\* vobject::parse_component on the text of a file: Err for the empty file, a
\* prefix cut inside the document and any other text that is no component;
\* the component for a document, with or without the end of its last line.
parse_component(contents) ==
    IF contents.tag = "VCALENDAR" THEN [ok |-> TRUE, component |-> contents]
    ELSE IF contents.tag = "less_eol" THEN [ok |-> TRUE, component |-> contents.document]
    ELSE [ok |-> FALSE, component |-> Absent]

\* What a failing fs::write of a document leaves of the file: the file as it
\* was when the open failed; the empty file or a prefix of the document when
\* the open succeeded and write_all failed.
failed_write(contents, document) ==
    {contents, Truncated, Partial, LessFinalEol(document)}

\* TodoFile::from_item: encode the item and write its document.
FromItem ==
    /\ codec_pc = "item"
    /\ now' = now + 1
    /\ writes' = writes + 1
    /\ \/ /\ file' = calendar_of(todo_item, now + 1)
          /\ codec_pc' = "written"
       \/ /\ codec_pc' = "write_failed"
          /\ file' \in failed_write(file, calendar_of(todo_item, now + 1))
    /\ UNCHANGED <<todo_item, todo_file>>
    /\ UNCHANGED <<syncVars, sendVars, pageVars, backendVars, mainVars, auxVars>>

\* A text that vobject::parse_component rejects.
Unparsable == [tag |-> "unparsable"]

\* TodoFile::from_path_impl on a file of the given contents, at clock reading
\* clk: Err(ReadFile), Err(ParseComponent), Ok(None) or Ok(Some(todo_file)),
\* and the clock after it (a missing LAST-MODIFIED reads the clock).
from_path(contents, readable, clk) ==
    IF ~readable \/ contents = Absent
    THEN [result |-> "ReadFile", todo_file |-> Absent, clk |-> clk]
    ELSE IF ~parse_component(contents).ok
    THEN [result |-> "ParseComponent", todo_file |-> Absent, clk |-> clk]
    ELSE LET component == parse_component(contents).component
         IN IF extractable(component) /\ decodable(component.subcomponents[1].props)
            THEN [result |-> "Some",
                  todo_file |-> [tag |-> "TodoFile", component |-> component,
                                 item |-> from_component(component.subcomponents[1].props,
                                                         clk + 1)],
                  clk |-> IF has(component.subcomponents[1].props, "LAST-MODIFIED")
                          THEN clk ELSE clk + 1]
            ELSE [result |-> "None", todo_file |-> Absent, clk |-> clk]

\* The number of file writes after which no later run is explored.
MaxWrites == 2

\* TodoFile::from_path on the stored document (a later run's read_directory):
\* of the document as stored, or of whatever a write of this item, failed or
\* not, left of the file.
FromPath ==
    /\ \/ codec_pc = "written"
       \/ /\ codec_pc \in {"write_failed", "save_failed", "saved", "kept"}
          /\ writes < MaxWrites
    /\ \E readable \in BOOLEAN :
          LET r == from_path(file, readable, now)
          IN /\ codec_pc' = CASE r.result = "ReadFile" -> "read_failed"
                              [] r.result = "ParseComponent" -> "parse_failed"
                              [] OTHER -> "read"
             /\ todo_file' = r.todo_file
             /\ now' = r.clk
    /\ UNCHANGED <<todo_item, file, writes>>
    /\ UNCHANGED <<syncVars, sendVars, pageVars, backendVars, mainVars, auxVars>>

\* The items handed to from_item: built by a fetch from a remote item (any
\* status and due the backends derive, a title and a body with or without a
\* CRLF or a backslash followed by n), at a clock reading of any sub-second
\* part.
CodecDues == {NoDue, DueDate(1), DueDateTime(2), DueDateTime(3)}
CodecCreated == {4, 5}
CodecSummaries == Summaries \cup {<<"A", BS, "n">>}
CodecDescriptions == Descriptions \cup {<<"a", BS, "n">>}

BuiltItems ==
    {it \in [uid : {<<"uid-1">>}, kind : {ALL_TODO_KINDS[i] : i \in 1..Len(ALL_TODO_KINDS)},
             created : CodecCreated, due : CodecDues, status : TodoStatus,
             url : {<<"u1">>}, summary : CodecSummaries,
             description : CodecDescriptions,
             last_modified : {5, 6}, updated : {FALSE}] :
        it.last_modified = it.created + 1}

InitCodec ==
    /\ codec_pc = "item"
    /\ todo_item \in BuiltItems
    /\ file = Absent /\ todo_file = Absent /\ writes = 0
    /\ now = 6
    /\ SyncIdle /\ SendIdle /\ PageIdle /\ BackendIdle /\ MainIdle /\ AuxIdle

NextCodec == FromItem \/ FromPath

SpecCodec == InitCodec /\ [][NextCodec]_vars

\* ------------------------------------------------------------------------
\* An existing document: TodoFile::from_path, the setters, TodoFile::write
\* ------------------------------------------------------------------------
\* The clock reading after which no further change is explored.
MaxClock == 6

\* from_path returned Some(todo_file): the TodoFile is in memory.
Loaded == codec_pc = "read" /\ todo_file # Absent

\* The properties of the VTODO subcomponent (TodoFile::extract_component_as_mut)
vtodo_props(component) == component.subcomponents[1].props

\* sync that ignores the dirty flag.
sync_always(tf) ==
    [todo_file |-> [tf EXCEPT !.component.subcomponents[1].props =
                                  update_component(tf.item, @),
                              !.item.updated = FALSE],
     updated |-> "Yes"]

\* TodoFile::sync: the TodoFile after it, and the Updated it returns
sync(tf) ==
    IF tf.item.updated
    THEN [todo_file |-> [tf EXCEPT !.component.subcomponents[1].props =
                                       update_component(tf.item, @),
                                   !.item.updated = FALSE],
          updated |-> "Yes"]
    ELSE [todo_file |-> tf, updated |-> "No"]

\* TodoFile::write: sync, then fs::write when sync said Updated::Yes.
Write ==
    /\ Loaded
    /\ LET s == sync(todo_file)
       IN /\ todo_file' = s.todo_file
          /\ IF s.updated = "Yes"
             THEN /\ writes' = writes + 1
                  /\ \/ /\ file' = s.todo_file.component
                        /\ codec_pc' = "saved"
                     \/ /\ codec_pc' = "save_failed"
                        /\ file' \in failed_write(file, s.todo_file.component)
             ELSE /\ codec_pc' = "kept"
                  /\ UNCHANGED <<file, writes>>
    /\ UNCHANGED <<now, todo_item>>
    /\ UNCHANGED <<syncVars, sendVars, pageVars, backendVars, mainVars, auxVars>>

\* The setter context of the loaded item, and the item after a setter ran.
Ctx == [it |-> todo_file.item, clk |-> now]

Apply(c) ==
    /\ todo_file' = [todo_file EXCEPT !.item = c.it]
    /\ now' = c.clk
    /\ UNCHANGED <<codec_pc, todo_item, file, writes>>
    /\ UNCHANGED <<syncVars, sendVars, pageVars, backendVars, mainVars, auxVars>>

SetterDues == {DueDate(1), DueDateTime(2), DueDateTime(3)}

SetDueTo(v) == Loaded /\ now < MaxClock /\ Apply(set_due(Ctx, v))
SetStatusTo(v) == Loaded /\ now < MaxClock /\ Apply(set_status(Ctx, v))
SetSummaryTo(v) == Loaded /\ now < MaxClock /\ Apply(set_summary(Ctx, v))
SetDescriptionTo(v) == Loaded /\ now < MaxClock /\ Apply(set_description(Ctx, v))

SetDue == \E v \in SetterDues : SetDueTo(v)
SetStatus == \E v \in TodoStatus : SetStatusTo(v)
SetSummary == \E v \in Summaries : SetSummaryTo(v)
SetDescription == \E v \in Descriptions : SetDescriptionTo(v)

\* The match arm of fetch_items' closure on the loaded item.
UpdateFrom(r) ==
    /\ Loaded /\ now < MaxClock
    /\ r.url = todo_file.item.url
    /\ Apply(update_existing(todo_file.item, r, now))

Update == \E r \in RemoteItems : UpdateFrom(r)

\* The documents found in the target directory: written by an earlier run
\* (possibly of a version that wrote no LAST-MODIFIED), categories added by
\* hand or by a calendar application, or not ours at all.
StoredCategories ==
    {<<"issue">>, <<"work", "issue", "personal">>,
     <<"work", "pull-request", "assigned-pull-request">>, <<"work">>,
     <<"pull-request", "issue">>}

StoredDues == {NoDue, DueDate(1), DueDateTime(2)}

stored_props(cats, due, has_last_modified) ==
    LET p0 == [n \in {"DTSTAMP", "UID", "CREATED", "CLASS", "STATUS", "SUMMARY",
                      "DESCRIPTION", "URL", "CATEGORIES"} |->
                 CASE n = "DTSTAMP" -> format_date_time(2)
                   [] n = "UID" -> <<"uid-1">>
                   [] n = "CREATED" -> format_date_time(0)
                   [] n = "CLASS" -> "CONFIDENTIAL"
                   [] n = "STATUS" -> "NEEDS-ACTION"
                   [] n = "SUMMARY" -> <<"A">>
                   [] n = "DESCRIPTION" -> <<"a">>
                   [] n = "URL" -> <<"u1">>
                   [] n = "CATEGORIES" -> cats]
        p1 == IF due # NoDue THEN set(p0, "DUE", Due_display(due)) ELSE p0
    IN IF has_last_modified THEN set(p1, "LAST-MODIFIED", format_date_time(2)) ELSE p1

stored_doc(props, prefix, name) ==
    [tag |-> "VCALENDAR", version |-> "2.0",
     prodid |-> [present |-> TRUE, prefix |-> prefix, suffix |-> PRODID_SUFFIX],
     subcomponents |-> <<[name |-> name, props |-> props]>>]

\* Documents of other shapes: no PRODID, two subcomponents, none.
ForeignDocs ==
    LET sub == [name |-> "VTODO", props |-> stored_props(<<"issue">>, NoDue, TRUE)]
        ours == [present |-> TRUE, prefix |-> PRODID_PREFIX, suffix |-> PRODID_SUFFIX]
    IN {[tag |-> "VCALENDAR", version |-> "2.0",
         prodid |-> [present |-> FALSE, prefix |-> "", suffix |-> ""],
         subcomponents |-> <<sub>>],
        [tag |-> "VCALENDAR", version |-> "2.0", prodid |-> ours,
         subcomponents |-> <<sub, sub>>],
        [tag |-> "VCALENDAR", version |-> "2.0", prodid |-> ours,
         subcomponents |-> <<>>]}

StoredDocs ==
    {stored_doc(stored_props(c, d, l), PRODID_PREFIX, "VTODO") :
        c \in StoredCategories, d \in StoredDues, l \in BOOLEAN}
    \cup {stored_doc(stored_props(<<"issue">>, NoDue, TRUE), "-//other//", "VTODO"),
          stored_doc(stored_props(<<"issue">>, NoDue, TRUE), PRODID_PREFIX, "VEVENT")}
    \cup ForeignDocs

\* What a file of the directory may hold: a document, text that does not
\* parse, or what an earlier failed write left (nothing, or a prefix).
StoredFiles ==
    StoredDocs \cup {Unparsable, Truncated, Partial}
               \cup {LessFinalEol(stored_doc(stored_props(<<"issue">>, d, l),
                                             PRODID_PREFIX, "VTODO")) :
                        d \in StoredDues, l \in BOOLEAN}
               \cup {LessFinalEol(stored_doc(stored_props(<<"issue">>, NoDue, TRUE),
                                             "-//other//", "VTODO"))}

InitFile ==
    /\ codec_pc = "written"
    /\ todo_item = Absent
    /\ file \in StoredFiles
    /\ todo_file = Absent
    /\ writes = 0
    /\ now = 4
    /\ SyncIdle /\ SendIdle /\ PageIdle /\ BackendIdle /\ MainIdle /\ AuxIdle

NextFile ==
    FromPath \/ SetDue \/ SetStatus \/ SetSummary \/ SetDescription \/ Update \/ Write

SpecFile == InitFile /\ [][NextFile]_vars

\* ------------------------------------------------------------------------
\* The life of a new item's document: from_item, then from_path, the setters
\* and write of later runs
\* ------------------------------------------------------------------------
\* The items a fetch builds from the remote items, at clock reading 0.
NewItems == {build(r, <<"uid-1">>, 0) : r \in RemoteItems}

InitLife ==
    /\ codec_pc = "item"
    /\ todo_item \in NewItems
    /\ file = Absent /\ todo_file = Absent /\ writes = 0
    /\ now = 2
    /\ SyncIdle /\ SendIdle /\ PageIdle /\ BackendIdle /\ MainIdle /\ AuxIdle

NextLife == NextCodec \/ NextFile

SpecLife == InitLife /\ [][NextLife]_vars

\* ------------------------------------------------------------------------
\* One backend instance: GithubQuery / GitlabQuery behind ItemSource
\* ------------------------------------------------------------------------
MaxCalls == 3

\* Option<T>: None, Some(v)
NoTime == [some |-> FALSE, v |-> 0]
SomeTime(t) == [some |-> TRUE, v |-> t]
NoList == [some |-> FALSE, len |-> 0]
SomeList(n) == [some |-> TRUE, len |-> n]
NoText == [some |-> FALSE, v |-> <<>>]
SomeText(t) == [some |-> TRUE, v |-> t]

\* graphql enums IssueState / PullRequestState; "Other" is Other(String)
GithubIssueStates == {"OPEN", "CLOSED", "Other"}
GithubPullRequestStates == {"OPEN", "CLOSED", "MERGED", "Other"}

\* milestone: Option<{ due_on: Option<DateTime<Utc>> }>
GithubMilestones ==
    {[some |-> FALSE, due_on |-> NoTime], [some |-> TRUE, due_on |-> NoTime],
     [some |-> TRUE, due_on |-> SomeTime(2)]}

\* assignees.assignees: Option<Vec<..>>
GithubAssignees == {NoList, SomeList(0), SomeList(1)}

\* queries::viewer_issues::IssueInfo
GithubIssues ==
    [what : {"issue"}, service : {"github"}, state : GithubIssueStates,
     assignees : GithubAssignees, milestone : GithubMilestones,
     title : {<<"A">>}, body : {<<"a">>}, url : {<<"u1">>}]

\* queries::viewer_pull_requests::PullRequestInfo
GithubPullRequests ==
    [what : {"pull_request"}, service : {"github"}, state : GithubPullRequestStates,
     assignees : GithubAssignees, milestone : GithubMilestones,
     title : {<<"B">>}, body : {<<"a">>}, url : {<<"u2">>}]

\* the state strings of the GitLab REST API, and one it does not document
GitlabStates == {"opened", "closed", "merged", "locked"}

\* milestone: Option<GitlabMilestone { due_date: Option<NaiveDate> }>
GitlabMilestones ==
    {[some |-> FALSE, due_date |-> NoTime], [some |-> TRUE, due_date |-> NoTime],
     [some |-> TRUE, due_date |-> SomeTime(1)]}

\* struct GitlabIssue; assignees is the length of the Vec
GitlabIssues ==
    [what : {"issue"}, service : {"gitlab"}, state : GitlabStates,
     assignees : {0, 1}, due_date : {NoTime, SomeTime(3)}, milestone : GitlabMilestones,
     title : {<<"A">>}, description : {NoText, SomeText(<<"a">>)}, web_url : {<<"u1">>}]

\* struct GitlabMergeRequest
GitlabMergeRequests ==
    [what : {"pull_request"}, service : {"gitlab"}, state : GitlabStates,
     assignees : {0, 1}, milestone : GitlabMilestones,
     title : {<<"B">>}, description : {NoText, SomeText(<<"a">>)}, web_url : {<<"u2">>}]

\* From<IssueInfo> that never looks at the assignees.
github_issue_ignores_assignees(issue) ==
    [due |-> IF issue.milestone.some /\ issue.milestone.due_on.some
             THEN DueDateTime(issue.milestone.due_on.v) ELSE NoDue,
     summary |-> issue.title,
     description |-> issue.body,
     kind |-> "Issue",
     status |-> IF issue.state = "CLOSED" THEN "Completed" ELSE "NeedsAction",
     url |-> issue.url]

\* impl_issue!: From<IssueInfo> for GithubItem
github_issue(issue) ==
    [due |-> IF issue.milestone.some /\ issue.milestone.due_on.some
             THEN DueDateTime(issue.milestone.due_on.v) ELSE NoDue,
     summary |-> issue.title,
     description |-> issue.body,
     kind |-> "Issue",
     status |-> CASE issue.state = "CLOSED" -> "Completed"
                  [] issue.state = "OPEN" ->
                        IF (~issue.assignees.some) \/ issue.assignees.len = 0
                        THEN "NeedsAction" ELSE "InProcess"
                  [] OTHER -> "NeedsAction",
     url |-> issue.url]

\* impl_pull_request!: From<PullRequestInfo> for GithubItem
github_pull_request(pr) ==
    [due |-> IF pr.milestone.some /\ pr.milestone.due_on.some
             THEN DueDateTime(pr.milestone.due_on.v) ELSE NoDue,
     summary |-> pr.title,
     description |-> pr.body,
     kind |-> "PullRequest",
     status |-> CASE pr.state = "CLOSED" -> "Cancelled"
                  [] pr.state = "MERGED" -> "Completed"
                  [] pr.state = "OPEN" ->
                        IF (~pr.assignees.some) \/ pr.assignees.len = 0
                        THEN "NeedsAction" ELSE "InProcess"
                  [] OTHER -> "NeedsAction",
     url |-> pr.url]

\* From<GitlabIssue> for GitlabItem
gitlab_issue(issue) ==
    [due |-> IF issue.due_date.some THEN DueDate(issue.due_date.v)
             ELSE IF issue.milestone.some /\ issue.milestone.due_date.some
                  THEN DueDate(issue.milestone.due_date.v) ELSE NoDue,
     summary |-> issue.title,
     description |-> IF issue.description.some THEN issue.description.v ELSE <<>>,
     kind |-> "Issue",
     status |-> CASE issue.state = "closed" -> "Completed"
                  [] issue.state = "opened" ->
                        IF issue.assignees = 0 THEN "NeedsAction" ELSE "InProcess"
                  [] OTHER -> "NeedsAction",
     url |-> issue.web_url]

\* From<GitlabMergeRequest> that treats a closed request like a merged one.
gitlab_merge_request_closed_completed(mr) ==
    [due |-> IF mr.milestone.some /\ mr.milestone.due_date.some
             THEN DueDate(mr.milestone.due_date.v) ELSE NoDue,
     summary |-> mr.title,
     description |-> IF mr.description.some THEN mr.description.v ELSE <<>>,
     kind |-> "PullRequest",
     status |-> CASE mr.state \in {"closed", "merged"} -> "Completed"
                  [] mr.state = "opened" ->
                        IF mr.assignees = 0 THEN "NeedsAction" ELSE "InProcess"
                  [] OTHER -> "NeedsAction",
     url |-> mr.web_url]

\* From<GitlabMergeRequest> for GitlabItem
gitlab_merge_request(mr) ==
    [due |-> IF mr.milestone.some /\ mr.milestone.due_date.some
             THEN DueDate(mr.milestone.due_date.v) ELSE NoDue,
     summary |-> mr.title,
     description |-> IF mr.description.some THEN mr.description.v ELSE <<>>,
     kind |-> "PullRequest",
     status |-> CASE mr.state = "closed" -> "Cancelled"
                  [] mr.state = "merged" -> "Completed"
                  [] mr.state = "opened" ->
                        IF mr.assignees = 0 THEN "NeedsAction" ELSE "InProcess"
                  [] OTHER -> "NeedsAction",
     url |-> mr.web_url]

\* config::QueryTarget
QueryTargets == {"SelfUser", "Projects"}

\* client::Github::new / Gitlab::new: Ok or Err
Constructed == {"ready", "failed"}

\* LazyCell deref that runs the constructor again after a failure.
force_retries_failure(cell) ==
    IF cell \in {"uninit", "failed"}
    THEN {[cell |-> c, ran |-> 1] : c \in Constructed}
    ELSE {[cell |-> cell, ran |-> 0]}

\* Deref of the LazyCell (self.client.as_ref()): the first one runs the
\* constructor and stores what it returned; the cell after, and the runs made.
force(cell) ==
    IF cell = "uninit"
    THEN {[cell |-> c, ran |-> 1] : c \in Constructed}
    ELSE {[cell |-> cell, ran |-> 0]}

\* The service identifiers an account of the configuration may carry.
ServiceIds == {"github", "gitlab", "bitbucket"}

\* account::connect: the backend it returns, or the AccountError; github_feature
\* is the build's cfg(feature = "github").
connect(service_id, github_feature) ==
    IF service_id = "github"
    THEN IF github_feature THEN "GithubQuery" ELSE "UnsupportedService"
    ELSE "UnknownService"

\* account::connect on an account of the configuration.
Connect ==
    /\ backend_pc = "account"
    /\ \E github_feature \in BOOLEAN :
         LET made == connect(service, github_feature)
         IN IF made = "GithubQuery"
            THEN /\ client' = "uninit"
                 /\ backend_pc' = "live"
            ELSE /\ backend_pc' = made
                 /\ UNCHANGED client
    /\ UNCHANGED <<service, init_error_cell, constructions, connect_log, calls,
                   returns, remote, converted>>
    /\ UNCHANGED <<now, syncVars, sendVars, pageVars, codecVars, mainVars, auxVars>>

\* GithubQuery::new: the constructor is boxed into the LazyCell, not run.
GithubNew ==
    /\ backend_pc = "config" /\ service = "github"
    /\ client' = "uninit"
    /\ backend_pc' = "live"
    /\ UNCHANGED <<service, init_error_cell, constructions, connect_log, calls,
                   returns, remote, converted>>
    /\ UNCHANGED <<now, syncVars, sendVars, pageVars, codecVars, mainVars, auxVars>>

\* GitlabQuery::new: Gitlab::new runs here and its Result is stored.
GitlabNew ==
    /\ backend_pc = "config" /\ service = "gitlab"
    /\ client' \in Constructed
    /\ constructions' = constructions + 1
    /\ backend_pc' = "live"
    /\ UNCHANGED <<service, init_error_cell, connect_log, calls, returns, remote,
                   converted>>
    /\ UNCHANGED <<now, syncVars, sendVars, pageVars, codecVars, mainVars, auxVars>>

\* What a fetch_items call that got past the client does: the query fails,
\* panics, returns no record (Ok of the empty list), or returns a record that
\* is converted (filter_map then runs on it).
Returned(result) ==
    /\ returns' = Append(returns, result)
    /\ UNCHANGED <<backend_pc, remote, converted>>

ReturnedItem(record, item) ==
    /\ returns' = Append(returns, "Ok")
    /\ remote' = record
    /\ converted' = item
    /\ UNCHANGED backend_pc

Panicked ==
    /\ backend_pc' = "panicked"
    /\ UNCHANGED <<returns, remote, converted>>

\* GithubQuery::fetch_items on the given target
GithubFetchOn(target) ==
    /\ backend_pc = "live" /\ service = "github"
    /\ calls < MaxCalls
    /\ calls' = calls + 1
    /\ \E f \in force(client) :
         /\ client' = f.cell
         /\ constructions' = constructions + f.ran
         /\ IF f.cell = "failed"
            THEN /\ connect_log' = IF init_error_cell THEN connect_log ELSE connect_log + 1
                 /\ init_error_cell' = TRUE
                 /\ Returned("ServiceError")
            ELSE /\ UNCHANGED <<connect_log, init_error_cell>>
                 /\ IF target = "Projects"
                    THEN Panicked
                    ELSE \/ Returned("QueryError")
                         \/ Panicked
                         \/ Returned("Ok")
                         \/ \E issue \in GithubIssues :
                               ReturnedItem(issue, github_issue(issue))
                         \/ \E pr \in GithubPullRequests :
                               ReturnedItem(pr, github_pull_request(pr))
    /\ UNCHANGED service
    /\ UNCHANGED <<now, syncVars, sendVars, pageVars, codecVars, mainVars, auxVars>>

GithubFetch == \E target \in QueryTargets : GithubFetchOn(target)

\* GitlabQuery::fetch_items
GitlabFetch ==
    /\ backend_pc = "live" /\ service = "gitlab"
    /\ calls < MaxCalls
    /\ calls' = calls + 1
    /\ IF client = "failed"
       THEN /\ connect_log' = connect_log + 1
            /\ Returned("ServiceError")
       ELSE /\ UNCHANGED connect_log
            /\ \/ Returned("QueryError")
               \/ Returned("Ok")
               \/ \E issue \in GitlabIssues :
                     ReturnedItem(issue, gitlab_issue(issue))
               \/ \E mr \in GitlabMergeRequests :
                     ReturnedItem(mr, gitlab_merge_request(mr))
    /\ UNCHANGED <<service, client, init_error_cell, constructions>>
    /\ UNCHANGED <<now, syncVars, sendVars, pageVars, codecVars, mainVars, auxVars>>

InitBackend ==
    /\ \/ backend_pc = "config" /\ service \in {"github", "gitlab"}
       \/ backend_pc = "account" /\ service \in ServiceIds
    /\ client = "none"
    /\ init_error_cell = FALSE /\ constructions = 0 /\ connect_log = 0
    /\ calls = 0 /\ returns = <<>> /\ remote = NoRemote /\ converted = NoRemote
    /\ now = 0 /\ SyncIdle /\ SendIdle /\ PageIdle /\ CodecIdle /\ MainIdle /\ AuxIdle

NextBackend == Connect \/ GithubNew \/ GitlabNew \/ GithubFetch \/ GitlabFetch

SpecBackend == InitBackend /\ [][NextBackend]_vars

\* ------------------------------------------------------------------------
\* The run: try_main from the command line to its return
\* ------------------------------------------------------------------------
MaxTargets == 2
MaxProfiles == 2
MaxItems == 3

\* The action clap gives an Arg that sets none: an option that takes one value
\* (Arg::new("ALL_TARGETS") has .short, .long, .help and .conflicts_with only).
ALL_TARGETS_action == "Set"

\* What the run is started with and finds: how clap takes the command line
\* ("help" for --help and --version, "error" for a line it rejects), whether
\* -a is on it (with the value its action asks for), whether the platform
\* names a project directory, what becomes of the configuration file, the
\* accounts of the configuration in the order of their names, the build's
\* cfg(feature = "github"), the targets the line or default_targets select and
\* the documents of ours in their directories.
Invocations ==
    {inv \in [usage : {"ok", "help", "error"},
              all_targets : BOOLEAN,
              project_dirs : BOOLEAN,
              config : {"unreadable", "not_yaml", "bad_merge_keys", "bad_shape", "ok"},
              accounts : {<<>>} \cup {<<a>> : a \in ServiceIds}
                                \cup {<<a, b>> : a, b \in ServiceIds},
              github_feature : BOOLEAN,
              targets : 0..MaxTargets,
              documents : 0..MaxItems] :
        inv.targets = 0 => inv.documents = 0}

\* try_main returns.
Return(result) ==
    /\ run_result' = result
    /\ main_pc' = "returned"

\* ArgMatches::get_flag: the bool that a SetTrue or SetFalse action stored
\* (its default when the flag is not on the line); a panic for an arg of any
\* other action, which stored no bool.
get_flag(action, given) ==
    IF action = "SetTrue" THEN [tag |-> "Ok", flag |-> given]
    ELSE IF action = "SetFalse" THEN [tag |-> "Ok", flag |-> ~given]
    ELSE [tag |-> "panic", flag |-> FALSE]

\* Command::get_matches: the process exits on --help, --version and on a line
\* that clap rejects.
GetMatches ==
    /\ main_pc = "start"
    /\ main_pc' = IF invocation.usage = "ok" THEN "setup" ELSE "exited"
    /\ UNCHANGED <<setupVars, targets_left, profiles_left, todo_files, new_queue, errors,
                   attempted, run_result>>
    /\ UNCHANGED <<now, syncVars, sendVars, pageVars, codecVars, backendVars, auxVars>>

\* ProjectDirs::from(..).ok_or(NoProjectDir)? and the block that makes config:
\* the error try_main returns with, or "none".
load_config(inv) ==
    IF ~inv.project_dirs THEN "NoProjectDir"
    ELSE IF inv.config = "unreadable" THEN "ReadConfig"
    ELSE IF inv.config = "not_yaml" THEN "ParseConfig"
    ELSE IF inv.config = "bad_merge_keys" THEN "MergeKeys"
    ELSE IF inv.config = "bad_shape" THEN "ParseConfig"
    ELSE "none"

\* From the logger to `let config: Config = {..};`.
LoadConfig ==
    /\ main_pc = "setup"
    /\ IF load_config(invocation) = "none"
       THEN /\ main_pc' = "accounts"
            /\ accounts_left' = invocation.accounts
            /\ UNCHANGED run_result
       ELSE /\ Return(load_config(invocation))
            /\ UNCHANGED accounts_left
    /\ UNCHANGED <<invocation, targets_left, profiles_left, todo_files, new_queue, errors,
                   attempted>>
    /\ UNCHANGED <<now, syncVars, sendVars, pageVars, codecVars, backendVars, auxVars>>

\* One turn of config.accounts.into_iter().map(..).collect()?: account::connect
\* on the next account, whose error ends the run as SetupError::Account.
ConnectAccount ==
    /\ main_pc = "accounts" /\ accounts_left # <<>>
    /\ IF connect(Head(accounts_left), invocation.github_feature) = "GithubQuery"
       THEN /\ accounts_left' = Tail(accounts_left)
            /\ UNCHANGED <<main_pc, run_result>>
       ELSE /\ Return("Account")
            /\ UNCHANGED accounts_left
    /\ UNCHANGED <<invocation, targets_left, profiles_left, todo_files, new_queue, errors,
                   attempted>>
    /\ UNCHANGED <<now, syncVars, sendVars, pageVars, codecVars, backendVars, auxVars>>

\* `let targets = if matches.get_flag("ALL_TARGETS") {..}` and targets_to_use:
\* get_flag panics, or the loop over the selected targets begins.
SelectTargets ==
    /\ main_pc = "accounts" /\ accounts_left = <<>>
    /\ IF get_flag(ALL_TARGETS_action, invocation.all_targets).tag = "panic"
       THEN /\ main_pc' = "panicked"
            /\ UNCHANGED targets_left
       ELSE /\ main_pc' = "run"
            /\ targets_left' = invocation.targets
    /\ UNCHANGED <<setupVars, profiles_left, todo_files, new_queue, errors, attempted,
                   run_result>>
    /\ UNCHANGED <<now, syncVars, sendVars, pageVars, codecVars, backendVars, auxVars>>

InitMain ==
    /\ main_pc = "start"
    /\ invocation \in Invocations
    /\ accounts_left = <<>>
    /\ targets_left = 0 /\ profiles_left = 0
    /\ todo_files = <<>> /\ new_queue = <<>> /\ errors = <<>> /\ attempted = <<>>
    /\ run_result = "none"
    /\ now = 0 /\ SyncIdle /\ SendIdle /\ PageIdle /\ CodecIdle /\ BackendIdle /\ AuxIdle

\* The run up to the panic of get_flag, which no command line avoids: the
\* loop over the targets below is what try_main would go on with.
NextMain == GetMatches \/ LoadConfig \/ ConnectAccount \/ SelectTargets

SpecMain == InitMain /\ [][NextMain]_vars

\* ------------------------------------------------------------------------
\* The loop over targets_to_use: read_directory, the fetches, the write phase
\* ------------------------------------------------------------------------
\* The items of the current target still to be written, in the order of the
\* two for loops: all_new_items, then todo_files.
Pending ==
    [i \in 1..Len(new_queue) |-> [what |-> "new", id |-> new_queue[i]]]
    \o [i \in 1..Len(todo_files) |-> [what |-> "file", id |-> todo_files[i].id]]

\* Items handled or held by the run so far.
ItemsSoFar == Len(attempted) + Len(todo_files) + Len(new_queue)

\* The body of the loop over targets is over (or has not begun).
BetweenTargets ==
    main_pc = "run" /\ profiles_left = 0 /\ new_queue = <<>> /\ todo_files = <<>>

\* read_directory returned n TodoFiles; `dirty` are those decoded without LAST-MODIFIED
read_directory(n, dirty) == [i \in 1..n |-> [id |-> i, updated |-> i \in dirty]]

\* The top of the loop over targets_to_use: read_directory(..)?
ReadDirectory ==
    /\ BetweenTargets /\ targets_left > 0
    /\ \/ /\ \E result \in {"ReadDir", "ReadEntry", "TodoFile"} : Return(result)
          /\ UNCHANGED <<targets_left, profiles_left, todo_files>>
       \/ /\ \E n \in 0..(MaxItems - ItemsSoFar) : \E dirty \in SUBSET (1..n) :
                todo_files' = read_directory(n, dirty)
          /\ profiles_left' \in 0..MaxProfiles
          /\ targets_left' = targets_left - 1
          /\ UNCHANGED <<main_pc, run_result>>
    /\ UNCHANGED <<new_queue, errors, attempted>>
    /\ UNCHANGED <<now, setupVars, syncVars, sendVars, pageVars, codecVars, backendVars,
                   auxVars>>

\* One turn of the loop over target.profiles: the account lookup and
\* fetch_items, which returns Err, panics (query_projects is unimplemented!();
\* the asserts of query_user; the unwrap of auth_header) or returns Ok.
FetchProfile ==
    /\ main_pc = "run" /\ profiles_left > 0
    /\ \/ /\ \E result \in {"NoSuchAccount", "FetchItems"} : Return(result)
          /\ UNCHANGED <<profiles_left, todo_files, new_queue>>
       \/ /\ main_pc' = "panicked"
          /\ UNCHANGED <<run_result, profiles_left, todo_files, new_queue>>
       \/ /\ \E marks \in SUBSET (1..Len(todo_files)) :
                todo_files' = [i \in 1..Len(todo_files) |->
                                 [todo_files[i] EXCEPT !.updated = @ \/ i \in marks]]
          /\ \E m \in 0..(MaxItems - ItemsSoFar) :
                new_queue' = new_queue \o [i \in 1..m |-> Len(new_queue) + i]
          /\ profiles_left' = profiles_left - 1
          /\ UNCHANGED <<main_pc, run_result>>
    /\ UNCHANGED <<targets_left, errors, attempted>>
    /\ UNCHANGED <<now, setupVars, syncVars, sendVars, pageVars, codecVars, backendVars,
                   auxVars>>

\* The write_item closure: a failed write is logged and pushed onto errors.
write_item(errs, entry, ok) ==
    IF ok THEN errs
    ELSE Append(errs, [target |-> entry.target, what |-> entry.what, id |-> entry.id])

\* What write_item was called with.
WriteItemCall(what, id, ok) ==
    [target |-> targets_left, what |-> what, id |-> id, ok |-> ok]

\* for todo_item in all_new_items: TodoFile::from_item, which always writes.
WriteNew ==
    /\ main_pc = "run" /\ profiles_left = 0
    /\ new_queue # <<>>
    /\ \E ok \in BOOLEAN :
         LET entry == WriteItemCall("new", Head(new_queue), ok)
         IN /\ attempted' = Append(attempted, entry)
            /\ errors' = write_item(errors, entry, ok)
    /\ new_queue' = Tail(new_queue)
    /\ UNCHANGED <<main_pc, targets_left, profiles_left, todo_files, run_result>>
    /\ UNCHANGED <<now, setupVars, syncVars, sendVars, pageVars, codecVars, backendVars,
                   auxVars>>

\* for mut todo_file in todo_files: TodoFile::write, which can only fail when
\* the item is dirty (a clean item makes no file write).
WriteFile ==
    /\ main_pc = "run" /\ profiles_left = 0
    /\ new_queue = <<>> /\ todo_files # <<>>
    /\ \E ok \in (IF Head(todo_files).updated THEN BOOLEAN ELSE {TRUE}) :
         LET entry == WriteItemCall("file", Head(todo_files).id, ok)
         IN /\ attempted' = Append(attempted, entry)
            /\ errors' = write_item(errors, entry, ok)
    /\ todo_files' = Tail(todo_files)
    /\ UNCHANGED <<main_pc, targets_left, profiles_left, new_queue, run_result>>
    /\ UNCHANGED <<now, setupVars, syncVars, sendVars, pageVars, codecVars, backendVars,
                   auxVars>>

\* if errors.is_empty() { Ok(()) } else { Err(SetupError::write_errors(errors)) }
report(errs) == IF errs = <<>> THEN "Ok" ELSE "WriteErrors"

\* The loop over the targets is over.
Finish ==
    /\ BetweenTargets /\ targets_left = 0
    /\ Return(report(errors))
    /\ UNCHANGED <<targets_left, profiles_left, todo_files, new_queue, errors, attempted>>
    /\ UNCHANGED <<now, setupVars, syncVars, sendVars, pageVars, codecVars, backendVars,
                   auxVars>>

\* for (name, target) in targets_to_use {..}, and the report after it.
TargetLoop == ReadDirectory \/ FetchProfile \/ WriteNew \/ WriteFile \/ Finish

\* ------------------------------------------------------------------------
\* Reading a target's directory: read_directory
\* ------------------------------------------------------------------------
MaxEntries == 2

\* A directory entry: the iterator's item is an error, or it names a path with
\* an extension, a file type (of the entry, and of the target of a symlink),
\* and, for a file, whether it can be read and what it holds.
EntryError == [what |-> "error"]

DirEntry(ics, filetype, real_filetype, readable, contents) ==
    [what |-> "entry", ics |-> ics, filetype |-> filetype,
     real_filetype |-> real_filetype, readable |-> readable, contents |-> contents]

OurDoc == stored_doc(stored_props(<<"issue">>, NoDue, TRUE), PRODID_PREFIX, "VTODO")
OurUndatedDoc == stored_doc(stored_props(<<"issue">>, NoDue, FALSE), PRODID_PREFIX, "VTODO")
ForeignDoc == stored_doc(stored_props(<<"issue">>, NoDue, TRUE), "-//other//", "VTODO")
KindlessDoc == stored_doc(stored_props(<<"work">>, NoDue, TRUE), PRODID_PREFIX, "VTODO")

DirEntries ==
    {EntryError,
     DirEntry(FALSE, "file", "file", TRUE, OurDoc),
     DirEntry(TRUE, "dir", "dir", TRUE, Unparsable),
     DirEntry(TRUE, "no_metadata", "no_metadata", TRUE, OurDoc),
     DirEntry(TRUE, "symlink", "no_metadata", TRUE, OurDoc),
     DirEntry(TRUE, "symlink", "dir", TRUE, Unparsable),
     DirEntry(TRUE, "symlink", "file", TRUE, OurDoc),
     DirEntry(TRUE, "other", "other", TRUE, Unparsable),
     DirEntry(TRUE, "file", "file", FALSE, OurDoc)}
    \cup {DirEntry(TRUE, "file", "file", TRUE, c) :
             c \in {OurDoc, OurUndatedDoc, ForeignDoc, KindlessDoc, Unparsable, Truncated,
                    Partial, LessFinalEol(OurDoc), LessFinalEol(ForeignDoc)}}

\* The filters of the loop body: the entry reaches TodoFile::from_path.
reaches_from_path(e) ==
    /\ e.ics
    /\ e.filetype \notin {"no_metadata", "dir"}
    /\ (IF e.filetype = "symlink" THEN e.real_filetype ELSE e.filetype) = "file"

\* The body of read_directory's loop on one entry: the error it returns with
\* ("none" to go on), todo_files and the clock after it.
visit_entry(e, files, clk) ==
    IF e.what = "error"
    THEN [error |-> "ReadEntry", todo_files |-> files, clk |-> clk]
    ELSE IF ~reaches_from_path(e)
    THEN [error |-> "none", todo_files |-> files, clk |-> clk]
    ELSE LET r == from_path(e.contents, e.readable, clk)
         IN IF r.result \in {"ReadFile", "ParseComponent"}
            THEN [error |-> "TodoFile", todo_files |-> files, clk |-> clk]
            ELSE IF r.result = "Some"
            THEN [error |-> "none", todo_files |-> Append(files, r.todo_file),
                  clk |-> r.clk]
            ELSE [error |-> "none", todo_files |-> files, clk |-> clk]

\* fs::read_dir(dirpath)
OpenDir ==
    /\ dir_pc = "open"
    /\ \/ dir_pc' = "reading" /\ UNCHANGED dir_result
       \/ dir_pc' = "returned" /\ dir_result' = "ReadDir"
    /\ UNCHANGED <<now, dir_entries, dir_files>>
    /\ UNCHANGED <<syncVars, sendVars, pageVars, codecVars, backendVars, mainVars,
                   rateVars>>

\* One iteration of `for entry in dir_iter`.
VisitEntry ==
    /\ dir_pc = "reading" /\ dir_entries # <<>>
    /\ LET r == visit_entry(Head(dir_entries), dir_files, now)
       IN /\ dir_files' = r.todo_files
          /\ now' = r.clk
          /\ IF r.error = "none"
             THEN /\ dir_entries' = Tail(dir_entries)
                  /\ UNCHANGED <<dir_pc, dir_result>>
             ELSE /\ dir_pc' = "returned"
                  /\ dir_result' = r.error
                  /\ UNCHANGED dir_entries
    /\ UNCHANGED <<syncVars, sendVars, pageVars, codecVars, backendVars, mainVars,
                   rateVars>>

\* Ok(todo_files)
DirReturn ==
    /\ dir_pc = "reading" /\ dir_entries = <<>>
    /\ dir_pc' = "returned"
    /\ dir_result' = "Ok"
    /\ UNCHANGED <<now, dir_entries, dir_files>>
    /\ UNCHANGED <<syncVars, sendVars, pageVars, codecVars, backendVars, mainVars,
                   rateVars>>

InitDir ==
    /\ dir_pc = "open"
    /\ dir_entries \in SeqsUpTo(DirEntries, MaxEntries)
    /\ dir_files = <<>>
    /\ dir_result = "none"
    /\ now = 4
    /\ SyncIdle /\ SendIdle /\ PageIdle /\ CodecIdle /\ BackendIdle /\ MainIdle
    /\ RateIdle

NextDir == OpenDir \/ VisitEntry \/ DirReturn

SpecDir == InitDir /\ [][NextDir]_vars

\* ------------------------------------------------------------------------
\* Rate limit telemetry: check_rate_limits and RateLimitInfo::inspect
\* ------------------------------------------------------------------------
\* The largest `remaining` explored (the smallest is -1: the field is an i64).
MaxRemaining == 1002

\* queries::RateLimitInfo (reset_at is only formatted into the message)
RateLimitInfos ==
    [some : {TRUE}, cost : {1, 2}, limit : {5000}, remaining : -1..MaxRemaining]

\* inspect whose warn arm ends below 100.
inspect_warn_below_100(info) ==
    <<IF info.remaining = 0 THEN "Error"
      ELSE IF info.remaining < 100 THEN "Warn"
      ELSE IF info.remaining <= 1000 THEN "Info"
      ELSE "Debug",
      "Trace">>

\* RateLimitInfo::inspect: the levels of the entries it logs, in order; the
\* arms of the match are tried from the top.
inspect(info) ==
    <<IF info.remaining = 0 THEN "Error"
      ELSE IF info.remaining <= 100 THEN "Warn"
      ELSE IF info.remaining <= 1000 THEN "Info"
      ELSE "Debug",
      "Trace">>

\* GithubQuery::check_rate_limits on a response's rate_limit
CheckRateLimits ==
    /\ rate_pc = "response"
    /\ rate_log' = IF rate_limit.some THEN inspect(rate_limit) ELSE <<>>
    /\ rate_pc' = "checked"
    /\ UNCHANGED rate_limit
    /\ UNCHANGED <<now, syncVars, sendVars, pageVars, codecVars, backendVars, mainVars,
                   dirVars>>

InitRate ==
    /\ rate_pc = "response"
    /\ rate_limit \in RateLimitInfos \cup {NoRateLimit}
    /\ rate_log = <<>>
    /\ now = 0
    /\ SyncIdle /\ SendIdle /\ PageIdle /\ CodecIdle /\ BackendIdle /\ MainIdle
    /\ DirIdle

NextRate == CheckRateLimits

SpecRate == InitRate /\ [][NextRate]_vars

\* ------------------------------------------------------------------------
\* Reconciliation claims (under Spec)
\* ------------------------------------------------------------------------
\* The closure is about to run on a remote item whose url is a key of the lookup.
AtMatch ==
    /\ pc = "reconcile" /\ results # <<>>
    /\ Head(results).url \in DOMAIN existing_items

\* The closure is about to run on a remote item whose url is no key of the lookup.
AtNoMatch ==
    /\ pc = "reconcile" /\ results # <<>>
    /\ Head(results).url \notin DOMAIN existing_items

\* C1: merge-by-url. Reconciling a remote item whose url is a key of the lookup
\* and whose summary differs from the existing item's sets the existing item's
\* summary to the remote one, advances its last_modified, sets its dirty flag
\* and yields no new item.
C1_MergeByUrl ==
    [][(AtMatch /\ existing_items[Head(results).url].summary # Head(results).summary)
        => LET u == Head(results).url
           IN /\ existing_items'[u].summary = Head(results).summary
              /\ existing_items'[u].last_modified > existing_items[u].last_modified
              /\ existing_items'[u].updated
              /\ new_items' = new_items
              /\ all_new_items' = all_new_items]_vars

\* A stored item (summary "A") now carries the remote summary "B", is dirty,
\* was modified after the start of the run, and no item was created.
C1_Witness ==
    \E u \in DOMAIN existing_items :
        /\ existing_items[u].summary = <<"B">>
        /\ existing_items[u].updated
        /\ existing_items[u].last_modified > 4
        /\ new_items = <<>> /\ all_new_items = <<>>
        /\ pc = "idle" /\ fetches = 1

\* C2: new-item creation. Reconciling a remote item whose url is no key of the
\* lookup appends exactly one item to the fetch's result; its uid differs from
\* every uid known so far, its created is the clock reading of that moment, and
\* kind, status, url, summary, description and due are the remote item's.
C2_NewItem ==
    [][AtNoMatch
        => LET r == Head(results)
               n == Len(new_items)
           IN /\ Len(new_items') = n + 1
              /\ SubSeq(new_items', 1, n) = new_items
              /\ existing_items' = existing_items
              /\ LET it == new_items'[n + 1]
                 IN /\ \A u \in DOMAIN existing_items : existing_items[u].uid # it.uid
                    /\ \A i \in 1..n : new_items[i].uid # it.uid
                    /\ \A i \in 1..Len(all_new_items) : all_new_items[i].uid # it.uid
                    /\ it.created > now /\ it.created <= now'
                    /\ it.kind = r.kind /\ it.status = r.status /\ it.url = r.url
                    /\ it.summary = r.summary /\ it.description = r.description
                    /\ it.due = r.due]_vars

\* Beside a stored item, a new item was created from a remote item with a due
\* and a description holding a CR.
C2_Witness ==
    /\ DOMAIN existing_items = {<<"u1">>}
    /\ Len(new_items) = 1
    /\ new_items[1].url = <<"u2">>
    /\ new_items[1].description = <<"a", CR, LF>>
    /\ new_items[1].due = DueDateTime(2)
    /\ new_items[1].uid \notin {existing_items[u].uid : u \in DOMAIN existing_items}

\* All task items of the target: the stored ones and the ones created so far.
CreatedItems == all_new_items \o new_items

\* C3: url is a unique key within the target. No two items among the existing
\* items and the items created by the fetches share a url.
C3_UrlUnique ==
    /\ \A i, j \in 1..Len(CreatedItems) :
          i # j => CreatedItems[i].url # CreatedItems[j].url
    /\ \A i \in 1..Len(CreatedItems) : CreatedItems[i].url \notin DOMAIN existing_items

\* C4: idempotence. Reconciling a remote item against an existing item whose
\* due, status, summary and description already equal the remote values
\* changes nothing: no new item, and the item (dirty flag and last_modified
\* included) is as before; the clock is not even read.
C4_Idempotent ==
    [][(/\ AtMatch
        /\ LET r == Head(results)
               it == existing_items[Head(results).url]
           IN /\ it.due = r.due /\ it.status = r.status
              /\ it.summary = r.summary /\ it.description = r.description)
        => /\ existing_items' = existing_items
           /\ new_items' = new_items
           /\ now' = now]_vars

\* One fetch reconciled exactly one remote item against the only stored item:
\* nothing was created and the item is the clean item that was stored.
C4_Witness ==
    /\ pc = "idle" /\ fetches = 1 /\ budget = MaxRemote - 1
    /\ all_new_items = <<>>
    /\ DOMAIN existing_items = {<<"u1">>}
    /\ existing_items[<<"u1">>] = StoredItem(<<"u1">>, 1, "Issue", NoDue, FALSE)

\* C5: no deletions. No step removes or adds a key of the lookup, and a step
\* changes no existing item other than the one whose url is the url of the
\* remote item being reconciled: an item whose url does not occur in the fetch
\* is untouched.
C5_NoDeletions ==
    [][/\ DOMAIN existing_items' = DOMAIN existing_items
       /\ \A u \in DOMAIN existing_items :
            \/ (AtMatch /\ Head(results).url = u)
            \/ existing_items'[u] = existing_items[u]]_vars

\* A fetch of a single remote item changed the item at u1; the item at u2,
\* absent from the fetch, is the stored one and still in the lookup.
C5_Witness ==
    /\ pc = "idle" /\ fetches = 1 /\ budget = MaxRemote - 1
    /\ DOMAIN existing_items = Urls
    /\ existing_items[<<"u1">>].summary = <<"B">>
    /\ existing_items[<<"u2">>] = StoredItem(<<"u2">>, 2, "PullRequest", NoDue, FALSE)

\* ------------------------------------------------------------------------
\* Retry claims (under SpecSend)
\* ------------------------------------------------------------------------
AllUnavailable == \A i \in 1..Len(outcomes) : outcomes[i].tag = "GithubService"

RECURSIVE Pow2(_)
Pow2(n) == IF n = 0 THEN 1 ELSE 2 * Pow2(n - 1)

\* C6: backoff termination. While every attempt so far answered with the
\* service-unavailable error, the k attempts made were followed by sleeps of
\* 1, 2, .., 2^(k-1) seconds; no sixth attempt can be made; after the fifth
\* the loop can only end; and the send ends only after exactly 5 attempts and
\* the sleeps 1, 2, 4, 8, 16, returning the backoff-exhausted error.
C6_BackoffTermination ==
    AllUnavailable =>
        /\ attempts = Len(outcomes) /\ attempts <= 5
        /\ Len(sleeps) = attempts
        /\ \A i \in 1..attempts : sleeps[i] = Pow2(i - 1)
        /\ (send_pc = "loop" /\ attempts < 5) => ENABLED Attempt
        /\ (send_pc = "loop" /\ attempts = 5) => (ENABLED Exhausted /\ ~ENABLED Attempt)
        /\ send_pc = "done" =>
              /\ attempts = 5
              /\ sleeps = <<1, 2, 4, 8, 16>>
              /\ send_result.tag = "GithubBackoff"

\* Five service-unavailable answers (of both statuses), then the send is over.
C6_Witness ==
    /\ send_pc = "done" /\ AllUnavailable /\ Len(outcomes) = 5
    /\ outcomes[1].status = 500 /\ outcomes[5].status = 503
    /\ sleeps = <<1, 2, 4, 8, 16>>

NonRetryable == {"SendRequest", "Github", "JsonResponse", "GraphQL", "NoResponse"}

\* C7: only the service-unavailable error is slept on and retried. An attempt
\* that fails with any other error ends the send with that error, without a
\* sleep after it; on the first attempt that is 1 attempt and no sleep at all.
\* An attempt that fails with service-unavailable sleeps once and stays in the
\* loop.  Once the send is over, nothing more happens (no further attempt).
C7_OnlyUnavailableRetries ==
    [][/\ (send_pc = "done" => UNCHANGED sendVars)
       /\ (send_pc = "loop" /\ Len(outcomes') = Len(outcomes) + 1) =>
            LET o == outcomes'[Len(outcomes')]
            IN /\ (o.tag \in NonRetryable) =>
                    /\ send_pc' = "done"
                    /\ send_result' = o
                    /\ sleeps' = sleeps
                    /\ attempts' = attempts + 1
                    /\ (attempts = 0 => (attempts' = 1 /\ sleeps' = <<>>))
               /\ (o.tag = "GithubService") =>
                    /\ send_pc' = "loop"
                    /\ Len(sleeps') = Len(sleeps) + 1
               /\ o.tag \in NonRetryable \cup {"GithubService", "Ok"}]_vars

\* After two retried attempts the third fails with a GraphQL error list: the
\* send is over with that error after 3 attempts and 2 sleeps.
C7_Witness ==
    /\ send_pc = "done" /\ attempts = 3 /\ Len(sleeps) = 2
    /\ send_result.tag = "GraphQL"
    /\ outcomes[3].tag = "GraphQL"

\* C8: whatever the transport answered, the result of a finished send is never
\* the service-unavailable error; a send that ends after a service-unavailable
\* answer ends with the backoff-exhausted error.
C8_NeverUnavailable ==
    send_pc = "done" =>
        /\ send_result.tag # "GithubService"
        /\ send_result.tag \in NonRetryable \cup {"Ok", "GithubBackoff"}
        /\ (outcomes[Len(outcomes)].tag = "GithubService"
              => send_result.tag = "GithubBackoff")

\* The send is over after a last answer of 503 and returned backoff-exhausted.
C8_Witness ==
    /\ send_pc = "done" /\ Len(outcomes) = 5
    /\ outcomes[5] = ServiceUnavailable(503)
    /\ outcomes[1].tag = "GithubService"
    /\ send_result = Result("GithubBackoff")

\* ------------------------------------------------------------------------
\* Pagination claims (under SpecPage)
\* ------------------------------------------------------------------------
\* The last response said there is another page and gave no cursor.
LiedAboutNextPage ==
    /\ last_rsp.tag = "Ok" /\ last_rsp.has_next_page /\ last_rsp.end_cursor = "none"

\* C9: pagination safety. In both loops a response that signals another page
\* without a continuation cursor stops the loop at once (the assert fails), and
\* from then on no page request is sent: the page is not requested again.
C9_PaginationSafety ==
    [][/\ (Len(requests') > Len(requests) /\ LiedAboutNextPage') => page_pc' = "panic"
       /\ (LiedAboutNextPage \/ page_pc = "panic") => UNCHANGED pageVars]_vars

\* The second request of the pull-request loop, sent with cursor c1, got such a
\* response: the loop stopped after 3 requests in all.
C9_Witness ==
    /\ page_pc = "panic" /\ LiedAboutNextPage
    /\ Len(requests) = 3
    /\ requests[3] = [query |-> "ViewerPullRequests", cursor |-> "c1"]

\* ------------------------------------------------------------------------
\* Codec claims (under SpecCodec)
\* ------------------------------------------------------------------------
\* The document written for todo_item was decoded into an item.
Decoded == codec_pc = "read" /\ todo_file # Absent

\* C10 as stated: the decoded item has the uid, kind, status, url, summary,
\* description and due of the encoded item (a date-only due stays date-only, a
\* date-time due stays date-time).
C10_RoundTrip ==
    Decoded =>
        /\ todo_file.item.uid = todo_item.uid
        /\ todo_file.item.kind = todo_item.kind
        /\ todo_file.item.status = todo_item.status
        /\ todo_file.item.url = todo_item.url
        /\ todo_file.item.summary = todo_item.summary
        /\ todo_file.item.description = todo_item.description
        /\ todo_file.item.due = todo_item.due

\* A text that holds neither a backslash nor a carriage return.
Plain(text) == \A i \in 1..Len(text) : text[i] \notin {BS, CR}

\* C10 as amended: every written document decodes; uid, kind and status are
\* preserved; url, summary and description are preserved when they hold neither
\* a backslash nor a carriage return, a CR LF in them comes back as LF and a
\* backslash followed by n comes back as a backslash followed by a line feed;
\* the due keeps its granularity, a date-only due is preserved exactly and a
\* date-time due is preserved to the whole second (its sub-second part is
\* dropped).
C10_RoundTripAmended ==
    /\ codec_pc = "read" => todo_file # Absent
    /\ Decoded =>
        /\ todo_file.item.uid = todo_item.uid
        /\ todo_file.item.kind = todo_item.kind
        /\ todo_file.item.status = todo_item.status
        /\ \A f \in {"url", "summary", "description"} :
              /\ Plain(todo_item[f]) => todo_file.item[f] = todo_item[f]
              /\ (\A i \in 1..Len(todo_item[f]) : todo_item[f][i] # BS)
                    => todo_file.item[f] = replace2(todo_item[f], CR, LF, <<LF>>)
              /\ (\A i \in 1..Len(todo_item[f]) : todo_item[f][i] # CR)
                    => todo_file.item[f] = replace2(todo_item[f], BS, "n", <<BS, LF>>)
        /\ todo_file.item.due.tag = todo_item.due.tag
        /\ (todo_item.due.tag # "datetime") => todo_file.item.due = todo_item.due
        /\ (todo_item.due.tag = "datetime") =>
              todo_file.item.due.v = TicksPerSec * (todo_item.due.v \div TicksPerSec)
        /\ ((\A f \in {"url", "summary", "description"} : Plain(todo_item[f]))
              /\ (todo_item.due.tag = "datetime" => todo_item.due.v % TicksPerSec = 0))
            => C10_RoundTrip

\* An item with a backslash followed by n in its summary, a CRLF in its
\* description and a date-time due with a sub-second part was written and
\* decoded.
C10_Witness ==
    /\ Decoded
    /\ todo_item.summary = <<"A", BS, "n">>
    /\ todo_file.item.summary = <<"A", BS, LF>>
    /\ todo_item.description = <<"a", CR, LF>>
    /\ todo_file.item.description = <<"a", LF>>
    /\ todo_item.due = DueDateTime(3)
    /\ todo_file.item.due = DueDateTime(2)
    /\ todo_item.kind = "AssignedPullRequest"

\* ------------------------------------------------------------------------
\* Existing-document claims (under SpecFile)
\* ------------------------------------------------------------------------
Item == todo_file.item

\* The document a file holds: what vobject::parse_component makes of its text
\* (a file that lacks only the end of its last line holds the whole document).
Document(contents) == parse_component(contents).component

Categories(tf) == vtodo_props(tf.component)["CATEGORIES"]

NonKindTokens(cats) == SelectSeq(cats, LAMBDA c : c \notin KindCategories)
KindTokens(cats) == SelectSeq(cats, LAMBDA c : c \in KindCategories)

\* C11: re-encoding a document (a write of a dirty item) keeps every
\* categories token that is not a kind token, and leaves exactly one kind
\* token, the one of the item's kind; every other kind token is removed.
C11_CategoryPreservation ==
    [][(Write /\ Item.updated) =>
          /\ NonKindTokens(Categories(todo_file')) = NonKindTokens(Categories(todo_file))
          /\ KindTokens(Categories(todo_file')) = <<category(todo_file'.item.kind)>>]_vars

\* The document with categories work,pull-request,assigned-pull-request was
\* re-encoded: work is kept, pull-request is the one kind token left.
C11_Witness ==
    /\ codec_pc = "saved"
    /\ Item.kind = "PullRequest"
    /\ Categories(todo_file) = <<"work", "pull-request">>
    /\ vtodo_props(Document(file))["CATEGORIES"] = <<"work", "pull-request">>

\* C12: a write of a TodoFile decoded from a document that carries all
\* properties, LAST-MODIFIED included, with no field changed since, leaves the
\* dirty flag false, makes no file write and leaves the document unchanged.
C12_DecodeEncodeIdempotent ==
    [][(/\ Write
        /\ has(vtodo_props(Document(file)), "LAST-MODIFIED")
        /\ todo_file.component = Document(file)
        /\ Item = from_component(vtodo_props(Document(file)), now)) =>
          /\ ~todo_file'.item.updated
          /\ writes' = writes
          /\ file' = file
          /\ todo_file' = todo_file]_vars

\* A document with DUE, LAST-MODIFIED and extra categories was decoded and
\* written back with no change: nothing was written.
C12_Witness ==
    /\ codec_pc = "kept"
    /\ writes = 0
    /\ has(vtodo_props(Document(file)), "LAST-MODIFIED") /\ has(vtodo_props(Document(file)), "DUE")
    /\ Categories(todo_file) = <<"work", "issue", "personal">>
    /\ todo_file.component = Document(file)
    /\ ~Item.updated

\* C13: write makes a file write if and only if the item is dirty when it is
\* called; when it is not dirty, the file and the document in memory stay as
\* they are.
C13_PersistenceGate ==
    [][Write =>
          /\ (writes' = writes + 1) <=> Item.updated
          /\ (writes' # writes + 1) => (writes' = writes)
          /\ ~Item.updated => (file' = file /\ todo_file' = todo_file)]_vars

\* An item made dirty by a setter was written: one file write, flag cleared.
C13_Witness ==
    /\ codec_pc = "saved"
    /\ writes = 1
    /\ has(vtodo_props(Document(file)), "LAST-MODIFIED")
    /\ Item.summary = <<"B">>
    /\ vtodo_props(Document(file))["SUMMARY"] = <<"B">>
    /\ ~Item.updated

\* What a setter does to the field it owns, called with v on a field holding old.
SetterEffect(old, v, new) ==
    IF v # old
    THEN /\ new = v
         /\ now' > now
         /\ todo_file'.item.last_modified = now'
         /\ todo_file'.item.updated
    ELSE UNCHANGED <<todo_file, now>>

\* C14 as stated: each setter, called with a value different from the current
\* one, assigns the value, sets last_modified to now and sets dirty; called with
\* a value equal to the current one, it changes nothing.
C14_SetterInvariant ==
    [][/\ \A v \in SetterDues :
            SetDueTo(v) => SetterEffect(Item.due, v, todo_file'.item.due)
       /\ \A v \in TodoStatus :
            SetStatusTo(v) => SetterEffect(Item.status, v, todo_file'.item.status)
       /\ \A v \in Summaries :
            SetSummaryTo(v) => SetterEffect(Item.summary, v, todo_file'.item.summary)
       /\ \A v \in Descriptions :
            SetDescriptionTo(v) =>
                SetterEffect(Item.description, v, todo_file'.item.description)]_vars

\* C14 as amended: set_description compares and assigns its argument with the
\* carriage returns removed; the other three setters are as stated.
C14_SetterInvariantAmended ==
    [][/\ \A v \in SetterDues :
            SetDueTo(v) => SetterEffect(Item.due, v, todo_file'.item.due)
       /\ \A v \in TodoStatus :
            SetStatusTo(v) => SetterEffect(Item.status, v, todo_file'.item.status)
       /\ \A v \in Summaries :
            SetSummaryTo(v) => SetterEffect(Item.summary, v, todo_file'.item.summary)
       /\ \A v \in Descriptions :
            SetDescriptionTo(v) =>
                SetterEffect(Item.description, StripCR(v), todo_file'.item.description)]_vars

\* set_description was called with a text holding CRLF: the item holds the
\* text without the CR, stamped and dirty.
C14_Witness ==
    /\ Loaded
    /\ Item.description = <<"a", LF>>
    /\ Item.last_modified = now
    /\ Item.updated
    /\ has(vtodo_props(Document(file)), "LAST-MODIFIED")

\* C15: the uid and created of a TodoItem stay what they were at construction
\* through setter calls, reconciliation and write.
C15_UidCreatedFrozen ==
    [][(todo_file # Absent /\ todo_file' # Absent) =>
          /\ todo_file'.item.uid = Item.uid
          /\ todo_file'.item.created = Item.created]_vars

\* An item changed by setters and written still has the uid and created it was
\* decoded with.
C15_Witness ==
    /\ codec_pc = "saved"
    /\ Item.status = "Completed" /\ Item.summary = <<"B">>
    /\ Item.uid = value_as_string(vtodo_props(Document(file))["UID"])
    /\ Item.created = parse_date_time(vtodo_props(Document(file))["DTSTAMP"])
    /\ Item.last_modified > Item.created

\* ------------------------------------------------------------------------
\* Backend claims (under SpecBackend)
\* ------------------------------------------------------------------------
HasAssignee(r) ==
    IF r.service = "github" THEN r.assignees.some /\ r.assignees.len >= 1
    ELSE r.assignees >= 1

IsOpen(r) == r.state \in {"OPEN", "opened"}
IsClosed(r) == r.state \in {"CLOSED", "closed"}
IsMerged(r) == r.state \in {"MERGED", "merged"}

\* C16: an issue of either backend becomes an item of kind Issue whose status
\* is Completed when it is closed, NeedsAction when it is open with no
\* assignee, InProcess when it is open with an assignee, and NeedsAction when
\* its state is not a recognized one.
C16_IssueStatus ==
    remote.what = "issue" =>
        /\ converted.kind = "Issue"
        /\ IsClosed(remote) => converted.status = "Completed"
        /\ (IsOpen(remote) /\ ~HasAssignee(remote)) => converted.status = "NeedsAction"
        /\ (IsOpen(remote) /\ HasAssignee(remote)) => converted.status = "InProcess"
        /\ (~IsOpen(remote) /\ ~IsClosed(remote)) => converted.status = "NeedsAction"

\* An open GitHub issue with one assignee was converted to InProcess.
C16_Witness ==
    /\ remote.what = "issue" /\ remote.service = "github"
    /\ remote.state = "OPEN" /\ remote.assignees = SomeList(1)
    /\ converted.kind = "Issue" /\ converted.status = "InProcess"

\* C17: a pull or merge request of either backend becomes an item of kind
\* PullRequest whose status is Cancelled when it is closed without a merge,
\* Completed when it is merged, NeedsAction when it is open with no assignee,
\* InProcess when it is open with an assignee, and NeedsAction when its state
\* is not a recognized one.
C17_PullRequestStatus ==
    remote.what = "pull_request" =>
        /\ converted.kind = "PullRequest"
        /\ IsClosed(remote) => converted.status = "Cancelled"
        /\ IsMerged(remote) => converted.status = "Completed"
        /\ (IsOpen(remote) /\ ~HasAssignee(remote)) => converted.status = "NeedsAction"
        /\ (IsOpen(remote) /\ HasAssignee(remote)) => converted.status = "InProcess"
        /\ (~IsOpen(remote) /\ ~IsClosed(remote) /\ ~IsMerged(remote)) =>
              converted.status = "NeedsAction"

\* A closed GitLab merge request was converted to Cancelled.
C17_Witness ==
    /\ remote.what = "pull_request" /\ remote.service = "gitlab"
    /\ remote.state = "closed" /\ remote.assignees = 1
    /\ converted.kind = "PullRequest" /\ converted.status = "Cancelled"

\* C18: on a GitHub backend the client is not constructed before the first
\* fetch, the constructor runs at most once whatever the number of fetches, a
\* constructed client (handle or failure) stays in the cell, and once the
\* construction failed every fetch returns ServiceError without running the
\* constructor again.
C18_LazyOnceClient ==
    /\ [](service = "github" =>
            /\ constructions <= 1
            /\ (calls = 0 => (client \notin Constructed /\ constructions = 0))
            /\ (client \in Constructed <=> constructions = 1))
    /\ [][service = "github" =>
            /\ (client \in Constructed =>
                  (client' = client /\ constructions' = constructions))
            /\ (client = "uninit" /\ client' # client) => calls' = calls + 1
            /\ (client = "failed" /\ calls' # calls) =>
                  returns' = Append(returns, "ServiceError")]_vars

\* Three fetches on a GitHub backend whose client construction failed: one
\* constructor run, three ServiceErrors.
C18_Witness ==
    /\ service = "github" /\ client = "failed"
    /\ constructions = 1
    /\ calls = 3
    /\ returns = <<"ServiceError", "ServiceError", "ServiceError">>

\* C19: on an instance of either backend whose client construction failed,
\* every fetch returns ServiceError and the connection failure is logged
\* exactly once, whatever the number of fetches.
C19_FailureLoggedOnce ==
    (client = "failed" /\ calls >= 1) =>
        /\ \A i \in 1..Len(returns) : returns[i] = "ServiceError"
        /\ connect_log = 1

\* ------------------------------------------------------------------------
\* Run claims (under SpecMain)
\* ------------------------------------------------------------------------
\* The errors of the failed write_item calls, in the order of the calls.
ErrorsOf(calls_made) ==
    LET failed == SelectSeq(calls_made, LAMBDA a : ~a.ok)
    IN [i \in 1..Len(failed) |->
          [target |-> failed[i].target, what |-> failed[i].what, id |-> failed[i].id]]

\* The errors with which try_main returns before it comes to the targets.
SetupErrors == {"NoProjectDir", "ReadConfig", "ParseConfig", "MergeKeys", "Account"}

\* The errors with which try_main returns from the loop before a write phase.
EarlyReturns == {"ReadDir", "ReadEntry", "TodoFile", "NoSuchAccount", "FetchItems"}

\* The run is over, and neither the command line, the setup, a directory
\* read nor a fetch has ended it.
RunOverUnhindered ==
    /\ main_pc \in {"returned", "panicked"}
    /\ run_result \notin SetupErrors \cup EarlyReturns

C21_FailedFetchContributesNothing ==
    [][(pc # "aborted" /\ pc' = "aborted")
        => /\ existing_items' = existing_items
           /\ all_new_items' = all_new_items
           /\ new_items' = <<>>
           /\ now' = now]_vars

\* A first profile changed a stored item and created a new one; the second
\* profile's fetch failed, and both are still there.
C21_Witness ==
    /\ pc = "aborted" /\ fetches = 1
    /\ Len(all_new_items) = 1 /\ new_items = <<>>
    /\ \E u \in DOMAIN existing_items :
          /\ existing_items[u].summary = <<"B">>
          /\ existing_items[u].updated

\* C27: on a url match the due is assigned only when the remote item supplies
\* one. A remote item without a due leaves the existing item's due as it was,
\* and when its status, summary and (CR-stripped) description equal the current
\* ones the item is not touched at all; status, summary and description are
\* compared whatever the due: each that differs is assigned and marks the item.
C27_DueOnlyWhenSupplied ==
    [][(AtMatch /\ Head(results).due = NoDue)
        => LET r == Head(results)
               old == existing_items[Head(results).url]
               new == existing_items'[Head(results).url]
               same == /\ old.status = r.status /\ old.summary = r.summary
                       /\ old.description = StripCR(r.description)
           IN /\ new.due = old.due
              /\ same => new = old
              /\ new.status = r.status /\ new.summary = r.summary
              /\ new.description = StripCR(r.description)
              /\ ~same => (new.updated /\ new.last_modified > old.last_modified)]_vars

\* The only stored item, due on a date, was matched by the one remote item of
\* the fetch: it took the remote summary and kept its due, which a remote due
\* (a date-time) would have replaced.
C27_Witness ==
    /\ pc = "reconcile" /\ results = <<>> /\ budget = MaxRemote - 1
    /\ new_items = <<>> /\ fetches = 0
    /\ DOMAIN existing_items = {<<"u1">>}
    /\ existing_items[<<"u1">>].due = DueDate(1)
    /\ existing_items[<<"u1">>].summary = <<"B">>
    /\ existing_items[<<"u1">>].updated

\* ------------------------------------------------------------------------
\* Decode claims (under SpecFile)
\* ------------------------------------------------------------------------
\* The step is a from_path call that read the file.
ReadStep ==
    /\ codec_pc \in {"written", "write_failed", "save_failed", "saved", "kept"}
    /\ codec_pc' \in {"read", "parse_failed"}

\* The step is a from_path call that read and parsed the file.
Parsed == ReadStep /\ parse_component(file).ok

\* PRODID present with the fixed prefix, one subcomponent, and it is a VTODO.
OursShape(doc) ==
    /\ doc.prodid.present /\ doc.prodid.prefix = "-//IDN benboeckel.net//devtodo/"
    /\ Len(doc.subcomponents) = 1
    /\ doc.subcomponents[1].name = "VTODO"

\* C22: decode acceptance. Decoding a parsed document never returns an error,
\* and returns an item only if the document carries a PRODID with the fixed
\* prefix and wraps exactly one subcomponent, a VTODO; any other parsed
\* document gives no item.
C22_DecodeAcceptance ==
    [][ReadStep
        => /\ parse_component(file).ok => codec_pc' = "read"
           /\ todo_file' # Absent
                 => (parse_component(file).ok /\ OursShape(Document(file)))]_vars

\* A document with a foreign PRODID was read: no item, no error.
C22_Witness ==
    /\ codec_pc = "read" /\ todo_file = Absent
    /\ file.tag = "VCALENDAR" /\ file.prodid.present
    /\ file.prodid.prefix = "-//other//"

\* The kind of the first token of the list that is a kind token.
first_kind_token(cats) == KindTokens(cats)[1]
kind_of_token(token) ==
    CHOOSE k \in {ALL_TODO_KINDS[i] : i \in 1..Len(ALL_TODO_KINDS)} : category(k) = token

\* C24: kind decoding. The decoded kind is the kind of the first token of the
\* document's CATEGORIES list, in the order of that list, that is a kind
\* token; a document none of whose tokens is a kind token decodes to no item.
C24_KindOfFirstToken ==
    [][(Parsed /\ OursShape(Document(file)))
        => LET cats == vtodo_props(Document(file))["CATEGORIES"]
           IN IF KindTokens(cats) = <<>>
              THEN todo_file' = Absent
              ELSE /\ todo_file' # Absent
                   /\ todo_file'.item.kind = kind_of_token(first_kind_token(cats))]_vars

\* C25: a missing LAST-MODIFIED self-heals. Decoding a document without
\* LAST-MODIFIED gives an item whose last_modified is the clock reading of the
\* decode and which is dirty; a write of a dirty item is not skipped; and the
\* document a write saves carries LAST-MODIFIED, leaves the item clean, and
\* decodes again to an item that is not dirty.
C25_LastModifiedHeals ==
    [][/\ (Parsed /\ todo_file' # Absent /\ ~has(vtodo_props(Document(file)), "LAST-MODIFIED"))
          => /\ now' > now
             /\ todo_file'.item.last_modified = now'
             /\ todo_file'.item.updated
       /\ (Loaded /\ Item.updated /\ codec_pc' # "read")
          => codec_pc' \in {"saved", "save_failed"}
       /\ (Loaded /\ codec_pc' = "saved")
          => /\ has(vtodo_props(Document(file')), "LAST-MODIFIED")
             /\ ~todo_file'.item.updated
             /\ LET again == from_path(file', TRUE, now')
                IN /\ again.result = "Some"
                   /\ ~again.todo_file.item.updated]_vars

\* A document without LAST-MODIFIED (and without a due) was decoded at clock
\* reading 5 and written with no setter having changed it: the saved document
\* carries LAST-MODIFIED and the item is clean.
C25_Witness ==
    /\ codec_pc = "saved" /\ writes = 1 /\ now = 5
    /\ Item.last_modified = 5 /\ ~Item.updated
    /\ Item.due = NoDue /\ Item.summary = <<"A">> /\ Item.status = "NeedsAction"
    /\ Item.description = <<"a">>
    /\ has(vtodo_props(Document(file)), "LAST-MODIFIED")

\* ------------------------------------------------------------------------
\* Directory claims (under SpecDir)
\* ------------------------------------------------------------------------
\* The loop is at a readable regular .ics file whose text is not a document of
\* ours: it does not parse, or it parses and is not ours, or it is ours and
\* its task lacks a kind.
AtForeignOrMalformed ==
    /\ dir_pc = "reading" /\ dir_entries # <<>>
    /\ Head(dir_entries).what = "entry"
    /\ reaches_from_path(Head(dir_entries))
    /\ Head(dir_entries).readable
    /\ Head(dir_entries).contents \in {Unparsable, Truncated, Partial, ForeignDoc, KindlessDoc}

\* C23: a foreign or malformed document met while reading a target's
\* directory is skipped: read_directory does not return, keeps the documents
\* read so far, adds none, and goes on to the next entry.
C23_ForeignDocumentSkipped ==
    [][AtForeignOrMalformed
        => /\ dir_pc' = "reading"
           /\ dir_files' = dir_files
           /\ dir_entries' = Tail(dir_entries)]_vars

\* ------------------------------------------------------------------------
\* Backend selection claims (under SpecBackend)
\* ------------------------------------------------------------------------
\* C26: on the GitHub backend a fetch with target Projects(list), the client
\* being constructed, runs its queries and returns: the call ends with Ok (new
\* items) or an ItemError, and the instance stays usable, as for SelfUser.
C26_ProjectsFetchReturns ==
    [][(GithubFetchOn("Projects") /\ client' = "ready")
        => /\ backend_pc' = "live"
           /\ Len(returns') = Len(returns) + 1
           /\ returns'[Len(returns')] \in {"Ok", "QueryError"}]_vars

\* C29: the backend is selected by the account's service identifier. connect
\* returns the GitHub backend for "github" and the GitLab backend for "gitlab",
\* and returns an error only for an identifier of neither platform.
C29_BackendByServiceId ==
    [][(backend_pc = "account" /\ backend_pc' # "account")
        => /\ service \in {"github", "gitlab"} => backend_pc' = "live"
           /\ service = "github" => client' = "uninit"
           /\ service = "gitlab" => client' \in Constructed
           /\ backend_pc' \in {"UnsupportedService", "UnknownService"}
                 => service \notin {"github", "gitlab"}]_vars

\* ------------------------------------------------------------------------
\* Produced-document claims (under SpecLife)
\* ------------------------------------------------------------------------
ProducedProperties ==
    {"DTSTAMP", "UID", "CREATED", "CLASS", "STATUS", "SUMMARY", "DESCRIPTION", "URL",
     "LAST-MODIFIED", "CATEGORIES"}

\* C28: the document written for a new item, and every later rewrite of it,
\* is a calendar wrapper whose PRODID begins with the fixed prefix and which
\* holds exactly one VTODO carrying DTSTAMP, UID, CREATED, CLASS=CONFIDENTIAL,
\* STATUS, SUMMARY, DESCRIPTION, URL, LAST-MODIFIED and CATEGORIES, and DUE
\* exactly when the item written has a due; decoding it gives an item. This
\* holds of every file that holds a document, the one a failed write left
\* without the end of its last line included. (The other failed writes
\* produced no document: they left no file, a file of no bytes or a prefix cut
\* inside the document, none of which parses.)
C28_ProducedDocument ==
    /\ file \in {Absent, Truncated, Partial} => ~parse_component(file).ok
    /\ file \notin {Absent, Truncated, Partial}
        => /\ parse_component(file).ok
           /\ Document(file).tag = "VCALENDAR"
           /\ OursShape(Document(file))
           /\ ProducedProperties \subseteq DOMAIN vtodo_props(Document(file))
           /\ DOMAIN vtodo_props(Document(file)) \subseteq ProducedProperties \cup {"DUE"}
           /\ vtodo_props(Document(file))["CLASS"] = "CONFIDENTIAL"
           /\ (codec_pc = "written" \/ (codec_pc = "write_failed" /\ writes = 1))
                 => (has(vtodo_props(Document(file)), "DUE") <=> todo_item.due # NoDue)
           /\ (codec_pc = "saved" \/ (codec_pc = "save_failed"
                                        /\ file = LessFinalEol(todo_file.component)))
                 => (has(vtodo_props(Document(file)), "DUE") <=> Item.due # NoDue)
           /\ from_path(file, TRUE, now).result = "Some"

\* The document of an item created without a due was rewritten after the item
\* got one: the second write put a DUE into it.
C28_Witness ==
    /\ codec_pc = "saved" /\ writes = 2
    /\ todo_item.due = NoDue
    /\ Item.due # NoDue
    /\ has(vtodo_props(Document(file)), "DUE")

\* ------------------------------------------------------------------------
\* Rate limit claims (under SpecRate)
\* ------------------------------------------------------------------------
\* C30: the severity of the rate-limit log entry is a function of remaining
\* only, whatever the cost: 0 gives error, 1..100 warn, 101..1000 info, and
\* more than 1000 debug.
C30_RateLimitSeverity ==
    (rate_pc = "checked" /\ rate_limit.some)
        => LET remaining == rate_limit.remaining
               level == rate_log[1]
           IN /\ remaining = 0 => level = "Error"
              /\ (0 < remaining /\ remaining <= 100) => level = "Warn"
              /\ (100 < remaining /\ remaining <= 1000) => level = "Info"
              /\ remaining > 1000 => level = "Debug"

\* A response with exactly 100 points remaining was logged at warn.
C30_Witness ==
    /\ rate_pc = "checked" /\ rate_limit.some
    /\ rate_limit.remaining = 100 /\ rate_limit.cost = 2
    /\ rate_log[1] = "Warn"

\* ------------------------------------------------------------------------
\* Encoding and persistence claims (under SpecFile)
\* ------------------------------------------------------------------------
\* The step is a write of a dirty item: sync re-encodes the component.
Reencoded == Loaded /\ Item.updated /\ codec_pc' \in {"saved", "save_failed"}

\* C31: category encoding as stated. For every existing CATEGORIES list and
\* current kind the re-encoded list is the existing tokens that are no kind
\* token, in their order, followed by the current kind token as last element.
C31_CategoryEncoding ==
    [][Reencoded
        => Categories(todo_file') =
              Append(NonKindTokens(Categories(todo_file)), category(Item.kind))]_vars

\* C31 as the code has it: a list whose only kind token is the current kind's
\* is left as it is, wherever that token stands; every other list becomes the
\* non-kind tokens in their order followed by the current kind token.
C31_CategoryEncodingAmended ==
    [][Reencoded
        => LET old == Categories(todo_file)
           IN IF KindTokens(old) = <<category(Item.kind)>>
              THEN Categories(todo_file') = old
              ELSE Categories(todo_file') =
                      Append(NonKindTokens(old), category(Item.kind))]_vars

\* A document with categories work,issue,personal of an Issue was rewritten:
\* the saved list is the same, the kind token still in the middle.
C31_Witness ==
    /\ codec_pc = "saved" /\ writes = 1
    /\ Item.kind = "Issue"
    /\ Categories(todo_file) = <<"work", "issue", "personal">>
    /\ vtodo_props(Document(file))["CATEGORIES"] = <<"work", "issue", "personal">>

\* C33: a status change reaches the persisted document. The document a write
\* saves decodes to an item with the status the written item has.
C33_StatusPersisted ==
    [][(Loaded /\ codec_pc' = "saved")
        => LET again == from_path(file', TRUE, now')
           IN /\ again.result = "Some"
              /\ again.todo_file.item.status = todo_file'.item.status]_vars

\* C34: the dirty flag is cleared only by a successful write. After a write of
\* a dirty item whose file write failed, the item is still dirty.
C34_DirtyKeptOnFailedWrite ==
    [][(Loaded /\ Item.updated /\ codec_pc' = "save_failed")
        => todo_file'.item.updated]_vars

\* ------------------------------------------------------------------------
\* Created-timestamp claims (under SpecCodec)
\* ------------------------------------------------------------------------
\* C37: the created timestamp survives persistence. The item decoded from the
\* document written for an item has the created value stored in the
\* document's CREATED property, the (whole-second) created of the encoded item.
C37_CreatedSurvives ==
    Decoded =>
        /\ todo_file.item.created = parse_date_time(vtodo_props(Document(file))["CREATED"])
        /\ todo_file.item.created =
              TicksPerSec * (todo_item.created \div TicksPerSec)

\* ------------------------------------------------------------------------
\* Match-frame claims (under Spec)
\* ------------------------------------------------------------------------
\* C38: reconciliation never changes the kind or the url of an existing item.
\* The closure step on a url match leaves the matched item's kind and url (and
\* uid and created) as they were, also when the remote item's kind differs.
C38_KindUrlFrozen ==
    [][AtMatch
        => LET old == existing_items[Head(results).url]
               new == existing_items'[Head(results).url]
           IN /\ new.kind = old.kind /\ new.url = old.url
              /\ new.uid = old.uid /\ new.created = old.created]_vars

\* The stored item at u1, of kind Todo, was matched by a remote Issue: it took
\* the remote summary and is still a Todo.
C38_Witness ==
    /\ pc = "reconcile" /\ results = <<>> /\ fetches = 0
    /\ <<"u1">> \in DOMAIN existing_items
    /\ existing_items[<<"u1">>].kind = "Todo"
    /\ existing_items[<<"u1">>].summary = <<"B">>
    /\ existing_items[<<"u1">>].last_modified > 4

\* ------------------------------------------------------------------------
\* Bounded-retry claims (under SpecSend)
\* ------------------------------------------------------------------------
\* C39: bounded retry. A send never makes more than 5 attempts; a send that
\* returned a success did so on its last attempt k (1 <= k <= 5), every
\* attempt before it failed with the retryable error, the sleeps made are
\* exactly the k-1 sleeps of 1, 2, .., 2^(k-2), and no attempt follows.
C39_BoundedRetry ==
    /\ attempts <= 5 /\ Len(outcomes) = attempts
    /\ (send_pc = "done" /\ send_result.tag = "Ok")
          => /\ attempts >= 1
             /\ outcomes[attempts].tag = "Ok"
             /\ \A i \in 1..(attempts - 1) : outcomes[i].tag = "GithubService"
             /\ Len(sleeps) = attempts - 1
             /\ \A i \in 1..(attempts - 1) : sleeps[i] = Pow2(i - 1)
             /\ ~ENABLED Attempt /\ ~ENABLED Exhausted

\* The fifth attempt succeeded after four retried ones and sleeps of 1, 2, 4, 8.
C39_Witness ==
    /\ send_pc = "done" /\ send_result.tag = "Ok" /\ attempts = 5
    /\ sleeps = <<1, 2, 4, 8>>
    /\ outcomes[4].tag = "GithubService"

\* ------------------------------------------------------------------------
\* Pagination protocol claims (under SpecPage)
\* ------------------------------------------------------------------------
\* The step sends a page request.
Requesting == Len(requests') = Len(requests) + 1

\* C32: the GitHub pagination protocol. The first request of each query
\* carries no cursor and each following request of the query carries exactly
\* the end cursor of the previous response, which signalled another page; the
\* first pull-request request follows an issue response that signalled none,
\* and no issue request follows a pull-request request; a response that
\* signals another page (with its cursor) keeps the loop going, one that
\* signals none ends it; each page's items are appended to the result in page
\* order; after the pull-request loop ended nothing more is sent.
C32_PaginationProtocol ==
    [][/\ Requesting =>
            LET n == Len(requests)
                req == requests'[n + 1]
                rsp == last_rsp'
            IN /\ SubSeq(requests', 1, n) = requests
               /\ n = 0 => (req.query = "ViewerIssues" /\ req.cursor = "none")
               /\ (n > 0 /\ requests[n].query = req.query)
                     => /\ last_rsp.tag = "Ok" /\ last_rsp.has_next_page
                        /\ req.cursor = last_rsp.end_cursor /\ req.cursor # "none"
               /\ (n > 0 /\ requests[n].query # req.query)
                     => /\ requests[n].query = "ViewerIssues"
                        /\ req.query = "ViewerPullRequests" /\ req.cursor = "none"
                        /\ last_rsp.tag = "Ok" /\ ~last_rsp.has_next_page
               /\ rsp.tag = "Ok"
                     => /\ items' = items \o flatten(req.query, rsp.nodes)
                        /\ (rsp.has_next_page /\ rsp.end_cursor # "none")
                              => page_pc' = page_pc
                        /\ ~rsp.has_next_page
                              => page_pc' = IF req.query = "ViewerIssues"
                                            THEN "prs" ELSE "done"
               /\ rsp.tag # "Ok" => (items' = items /\ page_pc' = "error")
       /\ page_pc = "done" => UNCHANGED pageVars]_vars

\* Two issue pages (the second asked for with the cursor c1 of the first) and
\* one pull-request page, each of one node: the result holds them in that order.
C32_Witness ==
    /\ page_pc = "done"
    /\ requests = <<[query |-> "ViewerIssues", cursor |-> "none"],
                    [query |-> "ViewerIssues", cursor |-> "c1"],
                    [query |-> "ViewerPullRequests", cursor |-> "none"]>>
    /\ items = <<[query |-> "ViewerIssues", node |-> "n1"],
                 [query |-> "ViewerIssues", node |-> "n2"],
                 [query |-> "ViewerPullRequests", node |-> "n1"]>>

\* C40: every failure of a GitHub query send, backoff exhaustion included,
\* ends the fetch with QueryError tagged github carrying that failure, never
\* with ServiceError; ServiceError is returned only for a failed client
\* construction, and then no query was sent.
C40_SendFailureIsQueryError ==
    /\ [](page_error.kind = "ServiceError"
            => (requests = <<>> /\ page_error = service_error /\ page_pc = "error"))
    /\ [][/\ (Requesting /\ last_rsp'.tag # "Ok")
             => /\ page_pc' = "error"
                /\ page_error'.kind = "QueryError"
                /\ page_error'.service = "github"
                /\ page_error'.cause = last_rsp'.tag
          /\ (Requesting /\ last_rsp'.tag = "Ok") => page_error' = NoItemError
          /\ page_pc = "error" => UNCHANGED pageVars]_vars

\* The second request of the issue loop ended in backoff exhaustion: the fetch
\* ended with QueryError for github.
C40_Witness ==
    /\ page_pc = "error" /\ Len(requests) = 2
    /\ last_rsp.tag = "GithubBackoff"
    /\ page_error = [kind |-> "QueryError", service |-> "github",
                     cause |-> "GithubBackoff"]

\* ------------------------------------------------------------------------
\* Termination claims (under SpecBackend)
\* ------------------------------------------------------------------------
\* C35: every call of fetch_items returns Ok or Err. No call panics: each call
\* made has returned, whatever the target and the server's responses.
C35_FetchAlwaysReturns ==
    /\ backend_pc # "panicked"
    /\ backend_pc = "live" => Len(returns) = calls

====
